---- MODULE Spec2Model ----
(***************************************************************************)
(* A model of the ShaderLab server's express and proxy plugins:            *)
(*   - compose.js : the middleware composition / dispatch engine           *)
(*   - index.js   : Application (use, handleRequest / handleResponse)      *)
(*   - response.js: the response facade (status, body, headers, writable), *)
(*                  Layer and Router                                       *)
(*   - proxy      : the pass pipelines, the incoming and outgoing passes   *)
(* Each subsystem has its own specification over the shared variables.     *)
(***************************************************************************)
EXTENDS Integers, Naturals, Sequences, FiniteSets, TLC

\* ------------------------------------------------------------------------
\* Bounds
\* ------------------------------------------------------------------------
\* longest middleware list handed to compose()
MaxLen == 3
\* most operations the middleware of one request performs on the context
MaxOps == 3
\* most calls of Application.use(); longest array handed to compose() at set-up
MaxUse == 3
\* longest middleware list of a nested (inner) composition
MaxInner == 1
\* number of runs of the composed function that may be in flight
NumRuns == 2
\* most layers registered on the router
MaxLayers == 2

\* most layers registered on the second router
MaxSub == 1

VARIABLES
    \* ---- compose.js ----
    middleware,   \* the array handed to the outer compose()
    innerMw,      \* the array handed to a nested compose() (step kind "sub")
    hasNext,      \* whether the caller supplies the outer `next` continuation
    index,        \* closure variable `index`, one cell per invocation
    run,          \* per run: awaiting frames, settled result, records, ...
    \* ---- index.js: Application set-up ----
    appMw,        \* Application.middleware
    thrown,       \* the error thrown by the last set-up call, "none" if none
    composed,     \* what the last compose() call returned
    serving,      \* callback() has returned a request handler
    \* ---- index.js / response.js: one request ----
    req,          \* the inbound request: method, httpVersionMajor
    res,          \* the transport (http.ServerResponse)
    resp,         \* the response facade: _body, _explicitStatus, _explicitNullBody
    respond,      \* ctx.respond !== false
    raised,       \* the error a facade call threw into the middleware
    phase,        \* "mw" while middleware runs, then "done" or "failed"
    ops,          \* number of middleware operations so far
    \* ---- context.js: error routing ----
    err,          \* the value the pipeline rejected with / handed to onerror
    emitted,      \* the values emitted on the application's "error" event
    \* ---- response.js (router part) ----
    stack,        \* Router.stack: the registered layers
    ropts,        \* the router's options and the mode of allowedMethods()
    target,       \* the path and the host of the request
    matched,      \* ctx.matched
    chain,        \* the layer chain handed to compose() by dispatch
    pos,          \* the cursor in the chain
    trace,        \* the chain steps run so far
    nexts,        \* how often the router middleware called its next()
    rphase,       \* "setup", "chain", "downstream", "resolved"
    rparams,      \* Router.params of the dispatching router: the names, in order
    sub,          \* a second router, mounted into the first with use()
    params,       \* ctx.params
    \* ---- proxy: index.js, web.in.js, web.out.js, ws.in.js, shared.js ----
    popts,        \* requestOptions of the proxied request
    passes,       \* ProxyServer.webPasses and ProxyServer.wsPasses
    preq,         \* the inbound request (IncomingMessage)
    pres,         \* the client side: the ServerResponse, or the socket of an upgrade
    proxyReq,     \* the outgoing request to options.target
    forwardReq,   \* the outgoing request to options.forward
    plog,         \* passes run, events emitted on the proxy, callbacks called
    relay,        \* the backend's response (proxyRes) and what was set on res
    proxySocket,  \* the socket to the backend once it has upgraded
    resolved      \* resolveProxy: req.url, the rules, the target returned

composeVars == <<middleware, innerMw, hasNext, index, run>>

setupVars == <<appMw, thrown, composed, serving>>

reqVars == <<req, res, resp, respond, raised, phase, ops>>

errVars == <<err, emitted>>

routerVars ==
    <<stack, ropts, target, matched, chain, pos, trace, nexts, rphase, rparams, sub, params>>

proxyVars ==
    <<popts, passes, preq, pres, proxyReq, forwardReq, plog, relay, proxySocket, resolved>>

vars == <<composeVars, setupVars, reqVars, errVars, routerVars, proxyVars>>

Runs == 1..NumRuns

\* ------------------------------------------------------------------------
\* Helpers
\* ------------------------------------------------------------------------
SeqsUpTo(S, n) == UNION {[1..k -> S] : k \in 0..n}

Range(s) == {s[k] : k \in DOMAIN s}

IsPrefix(s, t) == Len(s) <= Len(t) /\ \A k \in 1..Len(s) : s[k] = t[k]

\* ------------------------------------------------------------------------
\* Middleware steps used to drive the composed pipeline
\* ------------------------------------------------------------------------
\* "async": async (ctx, next) => { arr.push(i); await next(); arr.push(i) }
\* "then" : (ctx, next) => { arr.push(i); return next().then(() => arr.push(i)) }
\* "twice": async (ctx, next) => { await next(); await next() }
\* "throw": () => { throw new Error() }
\* "catch": async (ctx, next) => { arr.push(i); try { await next(); arr.push(i) }
\*                                 catch (err) { caught } }
\* "stop" : ctx => {}
\* "sub"  : compose(innerMw)
InnerKinds == {"async", "then", "twice", "throw", "stop"}

Kinds == InnerKinds \cup {"catch", "sub"}

\* the root activation of a run; activation j >= 0 is the nested composition
\* invoked as step j of the root list
Root == 0 - 1

Pipe(p) == IF p = Root THEN middleware ELSE innerMw

NoRet == [st |-> "none", e |-> "none"]

Ret(st, e) == [st |-> st, e |-> e]

Rec(p, i, ev) == [p |-> p, i |-> i, ev |-> ev]

InitRun == [frames |-> <<>>, ret |-> NoRet, log |-> <<>>, calls |-> <<>>,
            nextCalls |-> 0, outcome |-> "idle", err |-> "none"]

\* ------------------------------------------------------------------------
\* compose(middleware)(context, next): the dispatch engine
\* ------------------------------------------------------------------------
\* `let index = -1` is declared inside the returned function: every invocation
\* of a composed function (run r, activation p) owns its cursor, whether the
\* runs come from one compose() result or from several compose() calls.
CellShared(r, p) == <<1, p>>

Cell(r, p) == <<r, p>>

IndexAt(idx, c) == IF c \in DOMAIN idx THEN idx[c] ELSE 0 - 1

SetIndex(idx, c, i) == [x \in DOMAIN idx \cup {c} |-> IF x = c THEN i ELSE idx[x]]

\* dispatch.bind(null, i + 1)
NextPosSkip(i) == i + 2

NextPos(i) == i + 1

\* try { return Promise.resolve(func(...)) } catch (err) { return Promise.reject(err) }
WrapLeak(st) == st

Wrap(st) == IF st = "thr" THEN "rej" ELSE st

\* the guard `if (i <= index)` of dispatch
AlreadyNoGuard(i, cur) == FALSE

Already(i, cur) == i <= cur

\* `if (i === middleware.length) func = next`
IsEndNever(p, i) == FALSE

IsEnd(p, i) == i = Len(Pipe(p))

\* `let func = middleware[i]` (undefined past the end of the array)
FuncAt(p, i) ==
    IF IsEnd(p, i) THEN "next"
    ELSE IF i < Len(Pipe(p)) THEN Pipe(p)[i + 1] ELSE "undefined"

\* dispatch(i) of activation p in run r, on the state S = [index, run];
\* either a frame for middleware[i] is pushed or the call settles at once
RECURSIVE Dispatch(_, _, _, _)
Dispatch(S, r, p, i) ==
    LET c    == Cell(r, p)
        cur  == IndexAt(S.index, c)
        S1   == [S EXCEPT !.index = SetIndex(S.index, c, i)]
        func == FuncAt(p, i)
    IN  IF Already(i, cur)
        THEN [S EXCEPT !.run.ret = Ret("rej", "multiple times")]
        ELSE IF func = "next" /\ p # Root
        THEN \* the outer continuation of a nested composition is the
             \* enclosing dispatch.bind(null, p + 1)
             Dispatch(S1, r, Root, NextPos(p))
        ELSE IF func = "next" /\ hasNext
        THEN \* the continuation supplied by the caller: async () => { called }
             [S1 EXCEPT !.run.nextCalls = @ + 1,
                        !.run.log = Append(@, Rec(p, i, "next")),
                        !.run.ret = Ret("ok", "none")]
        ELSE IF func \in {"next", "undefined"}
        THEN \* if (!func) return Promise.resolve()
             [S1 EXCEPT !.run.ret = Ret("ok", "none")]
        ELSE IF func = "sub"
        THEN \* the step is itself a composed function: its own dispatch(0)
             Dispatch(S1, r, i, 0)
        ELSE [S1 EXCEPT !.run.frames = Append(@, [p |-> p, i |-> i, pc |-> 0]),
                        !.run.calls = Append(@, <<p, i>>)]

\* ------------------------------------------------------------------------
\* One run of the composed function, step by step
\* ------------------------------------------------------------------------
Top(r) == run[r].frames[Len(run[r].frames)]

KindOf(f) == Pipe(f.p)[f.i + 1]

HasTop(r) == run[r].outcome = "running" /\ Len(run[r].frames) > 0

Front(s) == SubSeq(s, 1, Len(s) - 1)

SetPc(R, pc) == [R EXCEPT !.frames[Len(R.frames)].pc = pc]

\* the step function returns or throws: its frame is left and the result goes
\* through the dispatch call that invoked it
Complete(R, st, e) == [R EXCEPT !.frames = Front(R.frames),
                                !.ret = Ret(Wrap(st), e)]

Commit(S, r) ==
    /\ index' = S.index
    /\ run' = [run EXCEPT ![r] = S.run]

\* fnMiddleware(ctx [, next]): `return dispatch(0)`
Start(r) ==
    /\ run[r].outcome = "idle"
    /\ Commit(Dispatch([index |-> index,
                        run |-> [run[r] EXCEPT !.outcome = "running"]],
                       r, Root, 0), r)
    /\ UNCHANGED <<middleware, innerMw, hasNext, setupVars, reqVars, errVars, routerVars,
                   proxyVars>>

\* arr.push(i) on entry
Record(r) ==
    /\ HasTop(r)
    /\ run[r].ret = NoRet
    /\ KindOf(Top(r)) \in {"async", "then", "catch"}
    /\ Top(r).pc = 0
    /\ run' = [run EXCEPT ![r] =
                 SetPc([@ EXCEPT !.log = Append(@, Rec(Top(r).p, Top(r).i, "rec"))], 1)]
    /\ UNCHANGED <<middleware, innerMw, hasNext, index, setupVars, reqVars, errVars,
                   routerVars, proxyVars>>

CallPc(k) == IF k = "twice" THEN 0 ELSE 1

\* next(): dispatch.bind(null, i + 1)
CallNext(r) ==
    /\ HasTop(r)
    /\ run[r].ret = NoRet
    /\ KindOf(Top(r)) \in {"async", "then", "catch", "twice"}
    /\ Top(r).pc = CallPc(KindOf(Top(r)))
    /\ Commit(Dispatch([index |-> index, run |-> SetPc(run[r], Top(r).pc + 1)],
                       r, Top(r).p, NextPos(Top(r).i)), r)
    /\ UNCHANGED <<middleware, innerMw, hasNext, setupVars, reqVars, errVars, routerVars,
                   proxyVars>>

\* the second `await next()` of the "twice" step
CallAgain(r) ==
    /\ HasTop(r)
    /\ run[r].ret.st = "ok"
    /\ KindOf(Top(r)) = "twice"
    /\ Top(r).pc = 1
    /\ Commit(Dispatch([index |-> index,
                        run |-> SetPc([run[r] EXCEPT !.ret = NoRet], 2)],
                       r, Top(r).p, NextPos(Top(r).i)), r)
    /\ UNCHANGED <<middleware, innerMw, hasNext, setupVars, reqVars, errVars, routerVars,
                   proxyVars>>

\* the awaited next() resolved: run the code after it and return
Resume(r) ==
    /\ HasTop(r)
    /\ run[r].ret.st = "ok"
    /\ Top(r).pc = 2
    /\ LET k == KindOf(Top(r))
           R == IF k = "twice" THEN run[r]
                ELSE [run[r] EXCEPT !.log = Append(@, Rec(Top(r).p, Top(r).i, "rec"))]
       IN  run' = [run EXCEPT ![r] = Complete(R, "ok", "none")]
    /\ UNCHANGED <<middleware, innerMw, hasNext, index, setupVars, reqVars, errVars,
                   routerVars, proxyVars>>

\* the awaited next() failed and the step has no handler: an async function
\* rejects its promise, a plain function lets a synchronous throw through
Propagate(r) ==
    /\ HasTop(r)
    /\ run[r].ret.st \in {"rej", "thr"}
    /\ KindOf(Top(r)) # "catch"
    /\ LET st == IF KindOf(Top(r)) = "then" THEN run[r].ret.st ELSE "rej"
       IN  run' = [run EXCEPT ![r] = Complete(@, st, run[r].ret.e)]
    /\ UNCHANGED <<middleware, innerMw, hasNext, index, setupVars, reqVars, errVars,
                   routerVars, proxyVars>>

\* try { await next() } catch (err) { ... }
Catch(r) ==
    /\ HasTop(r)
    /\ run[r].ret.st \in {"rej", "thr"}
    /\ KindOf(Top(r)) = "catch"
    /\ run' = [run EXCEPT ![r] =
                 Complete([@ EXCEPT !.log = Append(@, Rec(Top(r).p, Top(r).i, run[r].ret.e))],
                          "ok", "none")]
    /\ UNCHANGED <<middleware, innerMw, hasNext, index, setupVars, reqVars, errVars,
                   routerVars, proxyVars>>

\* () => { throw new Error() }
Throw(r) ==
    /\ HasTop(r)
    /\ run[r].ret = NoRet
    /\ KindOf(Top(r)) = "throw"
    /\ run' = [run EXCEPT ![r] = Complete(@, "thr", "boom")]
    /\ UNCHANGED <<middleware, innerMw, hasNext, index, setupVars, reqVars, errVars,
                   routerVars, proxyVars>>

\* ctx => {}
Return(r) ==
    /\ HasTop(r)
    /\ run[r].ret = NoRet
    /\ KindOf(Top(r)) = "stop"
    /\ run' = [run EXCEPT ![r] = Complete(@, "ok", "none")]
    /\ UNCHANGED <<middleware, innerMw, hasNext, index, setupVars, reqVars, errVars,
                   routerVars, proxyVars>>

OutcomeOf(st) == IF st = "ok" THEN "resolved" ELSE IF st = "rej" THEN "rejected" ELSE "threw"

\* the caller of the composed function receives what dispatch(0) returned
Finish(r) ==
    /\ run[r].outcome = "running"
    /\ Len(run[r].frames) = 0
    /\ run[r].ret # NoRet
    /\ run' = [run EXCEPT ![r] = [@ EXCEPT !.outcome = OutcomeOf(run[r].ret.st),
                                           !.err = run[r].ret.e,
                                           !.ret = NoRet]]
    /\ UNCHANGED <<middleware, innerMw, hasNext, index, setupVars, reqVars, errVars,
                   routerVars, proxyVars>>

ComposeInit ==
    /\ middleware \in SeqsUpTo(Kinds, MaxLen)
    /\ innerMw \in SeqsUpTo(InnerKinds, MaxInner)
    /\ ("sub" \notin Range(middleware)) => innerMw = <<>>
    /\ hasNext \in BOOLEAN
    /\ index = <<>>
    /\ run = [r \in Runs |-> InitRun]

\* ------------------------------------------------------------------------
\* The transport and the response facade of one request
\* ------------------------------------------------------------------------
\* body values: null, undefined, a string, a Buffer, a Stream, an object
NullBody == [k |-> "null", v |-> "", len |-> 0]

UndefBody == [k |-> "undefined", v |-> "", len |-> 0]

\* Buffer.byteLength of an ASCII string
ByteLength(str) == Len(str)

StrBody(str) == [k |-> "string", v |-> str, len |-> ByteLength(str)]

BufBody(str) == [k |-> "buffer", v |-> str, len |-> ByteLength(str)]

StreamBody == [k |-> "stream", v |-> "", len |-> 0]

\* an object, carried as its JSON.stringify text
ObjBody(json) == [k |-> "object", v |-> json, len |-> ByteLength(json)]

\* res as handleRequest leaves it: `res.statusCode = 404`
NewRes(hasSocket) ==
    [statusCode |-> 404, statusMessage |-> "", headers |-> <<>>,
     headersSent |-> FALSE, writableEnded |-> FALSE,
     hasSocket |-> hasSocket, socketWritable |-> TRUE,
     endCalls |-> 0, sent |-> "", piped |-> FALSE]

NewResp ==
    [body |-> UndefBody, explicitStatus |-> FALSE, explicitNullBody |-> FALSE,
     bodyErrored |-> FALSE]

ReqIdle ==
    /\ req = [method |-> "GET", httpVersionMajor |-> 1]
    /\ res = NewRes(TRUE)
    /\ resp = NewResp
    /\ respond = TRUE
    /\ raised = "none"
    /\ phase = "idle"
    /\ ops = 0

\* the state of the application right after `new Application()`
SetupIdle ==
    /\ appMw = <<>>
    /\ thrown = "none"
    /\ composed = "none"
    /\ serving = FALSE

\* a status / statusCode property of a thrown value: undefined, a number, or a
\* string that is not a number
Undef == [t |-> "undefined", n |-> 0]

Num(n) == [t |-> "number", n |-> n]

Str == [t |-> "string", n |-> 0]

\* new Error(message)
NewError(message) ==
    [nul |-> FALSE, isError |-> TRUE, json |-> "", message |-> message,
     status |-> Undef, statusCode |-> Undef, code |-> "", expose |-> FALSE,
     headers |-> <<>>, headerSent |-> FALSE]

\* null / undefined handed to onerror
NullErr == [NewError("") EXCEPT !.nul = TRUE, !.isError = FALSE]

\* a thrown value that is not an Error; json is its JSON form (%j)
NonError(json) == [NewError("") EXCEPT !.isError = FALSE, !.json = json]

ErrIdle ==
    /\ err = NullErr
    /\ emitted = <<>>

\* new Router(): no layer, no parameter handler, no prefix, not strict
NewRouter ==
    [stack |-> <<>>, params |-> <<>>, opts |-> [prefix |-> "", strict |-> FALSE]]

RouterIdle ==
    /\ stack = <<>>
    /\ ropts = [exclusive |-> FALSE, host |-> "", mode |-> "none", prefix |-> "",
                strict |-> FALSE]
    /\ target = [path |-> "/", host |-> ""]
    /\ rparams = <<>>
    /\ sub = NewRouter
    /\ params = <<>>
    /\ matched = [def |-> FALSE, layers |-> <<>>]
    /\ chain = <<>>
    /\ pos = 0
    /\ trace = <<>>
    /\ nexts = 0
    /\ rphase = "idle"

\* ---- proxy: the state before any request ----
\* a cookie rewrite option that is not set
NoConfig == [kind |-> "none", str |-> "", map |-> <<>>]

\* an options object with nothing set
NoOptions ==
    [target |-> "", forward |-> "", selfHandleResponse |-> FALSE, clb |-> FALSE,
     proxyTimeout |-> FALSE, timeout |-> FALSE, xfwd |-> FALSE,
     hostRewrite |-> "", autoRewrite |-> FALSE, protocolRewrite |-> "",
     cookieDomainRewrite |-> NoConfig, cookiePathRewrite |-> NoConfig,
     preserveHeaderKeyCase |-> FALSE]

\* Object.keys(web).map(pass => web[pass]), Object.keys(ws).map(pass => ws[pass])
WebPasses == <<"deleteLength", "timeout", "XHeaders", "stream">>

WsPasses == <<"checkMethodAndHeader", "XHeaders", "stream">>

\* req.headers of an inbound request without any of the headers looked at
NoHeaders ==
    [upgrade |-> <<>>, contentLength |-> <<>>, transferEncoding |-> <<>>,
     host |-> <<>>, connection |-> <<>>, xfFor |-> <<>>, xfPort |-> <<>>,
     xfProto |-> <<>>, xfHost |-> <<>>]

NoRequest ==
    [kind |-> "none", method |-> "GET", httpVersion |-> "1.1", headers |-> NoHeaders,
     encrypted |-> FALSE, ended |-> FALSE, socketDestroyed |-> FALSE,
     socketTimeout |-> FALSE, onError |-> <<>>, head |-> FALSE]

\* the ServerResponse (or upgrade socket) before anything was done to it
NewClient ==
    [headersSent |-> FALSE, finished |-> FALSE, writableFinished |-> FALSE,
     closed |-> FALSE, destroyed |-> FALSE, written |-> 0, onClose |-> FALSE,
     onEnd |-> FALSE, piped |-> FALSE, readEnded |-> FALSE, onError |-> FALSE]

\* no response of the backend yet
NoResponse == [statusCode |-> 0, statusMessage |-> "", headers |-> <<>>, rawHeaders |-> <<>>]

\* the backend's response as it came, as the passes left it, and res
NoRelay ==
    [backend |-> NoResponse, proxyRes |-> NoResponse,
     res |-> [statusCode |-> 0, statusMessage |-> "", headers |-> <<>>]]

\* no call of resolveProxy yet
NoResolve == [url |-> "", path |-> "", rules |-> <<>>, target |-> "", called |-> FALSE]

ProxyIdle ==
    /\ popts = NoOptions
    /\ passes = [web |-> WebPasses, ws |-> WsPasses]
    /\ preq = NoRequest
    /\ pres = NewClient
    /\ proxyReq = "none"
    /\ forwardReq = "none"
    /\ plog = <<>>
    /\ relay = NoRelay
    /\ proxySocket = "none"
    /\ resolved = NoResolve

Init == ComposeInit /\ SetupIdle /\ ReqIdle /\ ErrIdle /\ RouterIdle /\ ProxyIdle

Next ==
    \/ \E r \in Runs : Start(r)
    \/ \E r \in Runs : Record(r)
    \/ \E r \in Runs : CallNext(r)
    \/ \E r \in Runs : CallAgain(r)
    \/ \E r \in Runs : Resume(r)
    \/ \E r \in Runs : Propagate(r)
    \/ \E r \in Runs : Catch(r)
    \/ \E r \in Runs : Throw(r)
    \/ \E r \in Runs : Return(r)
    \/ \E r \in Runs : Finish(r)

Spec == Init /\ [][Next]_vars

\* ------------------------------------------------------------------------
\* Properties of the dispatch engine
\* ------------------------------------------------------------------------
N == Len(middleware)

\* the indices pushed by the steps of the root list, in the order pushed
RECURSIVE Pushes(_)
Pushes(l) ==
    IF l = <<>> THEN <<>>
    ELSE IF l[1].ev = "rec" /\ l[1].p = Root
         THEN <<l[1].i>> \o Pushes(Tail(l))
         ELSE Pushes(Tail(l))

\* [0, 1, ..., n-1, n-1, ..., 1, 0]
Mirror(n) == [k \in 1..(2 * n) |-> IF k <= n THEN k - 1 ELSE 2 * n - k]

\* every step pushes its index, awaits next(), pushes its index again
AllRecording == \A k \in 1..N : middleware[k] \in {"async", "then"}

Done(r) == run[r].outcome \in {"resolved", "rejected", "threw"}

NoDuplicates(s) == \A a, b \in 1..Len(s) : s[a] = s[b] => a = b

PosIn(s, x) == CHOOSE k \in 1..Len(s) : s[k] = x

\* C1: when every one of the N steps pushes its index before and after its
\* awaited next(), written as an async function or as a plain function
\* returning next().then(...), a run pushes 0..N-1 ascending and then N-1..0
\* descending and resolves.
C1_MirroredOrder ==
    \A r \in Runs :
        AllRecording =>
            /\ IsPrefix(Pushes(run[r].log), Mirror(N))
            /\ run[r].outcome \notin {"rejected", "threw"}
            /\ run[r].outcome = "resolved" => Pushes(run[r].log) = Mirror(N)

C1_Witness ==
    /\ middleware = <<"then", "async", "then">>
    /\ run[1].outcome = "resolved"
    /\ Pushes(run[1].log) = <<0, 1, 2, 2, 1, 0>>

\* C2: a second next() of one step settles as a rejection "next() called
\* multiple times" without invoking anything, and every step of every list is
\* invoked at most once per run.
C2_NextTwiceRejected ==
    /\ [](\A r \in Runs : NoDuplicates(run[r].calls))
    /\ [][\A r \in Runs : CallAgain(r) =>
              /\ run'[r].ret = Ret("rej", "multiple times")
              /\ run'[r].calls = run[r].calls
              /\ run'[r].frames = SetPc(run[r], 2).frames]_vars

C2_Witness ==
    /\ middleware = <<"twice", "async">>
    /\ run[1].ret = Ret("rej", "multiple times")
    /\ run[1].calls = <<<<Root, 0>>, <<Root, 1>>>>
    /\ Top(1).pc = 2

\* a step of the same list after a throwing step, or a root step after a
\* nested composition whose step threw
AfterThrow(r) ==
    {c \in Range(run[r].calls) :
        \E t \in Range(run[r].calls) :
            /\ FuncAt(t[1], t[2]) = "throw"
            /\ \/ c[1] = t[1] /\ c[2] > t[2]
               \/ c[1] = Root /\ t[1] # Root /\ c[2] > t[1]}

\* C3: a synchronous throw of a step never crosses dispatch as an exception:
\* the dispatch call settles as a rejection carrying the thrown value, an
\* upstream try/await next()/catch receives it, and no step after the throwing
\* one is invoked.
C3_SyncThrowRejects ==
    /\ [](\A r \in Runs :
            /\ run[r].ret.st # "thr"
            /\ run[r].outcome # "threw"
            /\ AfterThrow(r) = {}
            /\ (N > 0 /\ middleware[1] = "catch") => run[r].outcome # "rejected")
    /\ [][\A r \in Runs :
            /\ Throw(r) => run'[r].ret = Ret("rej", "boom")
            /\ (Catch(r) /\ run[r].ret.e = "boom") =>
                   /\ run'[r].ret = Ret("ok", "none")
                   /\ run'[r].log = Append(run[r].log, Rec(Top(r).p, Top(r).i, "boom"))]_vars

C3_Witness ==
    /\ middleware = <<"catch", "then", "throw">>
    /\ run[1].outcome = "resolved"
    /\ run[1].log = <<Rec(Root, 0, "rec"), Rec(Root, 1, "rec"), Rec(Root, 0, "boom")>>

\* no list contains a step that calls next() twice
NoTwice == "twice" \notin (Range(middleware) \cup Range(innerMw))

\* C4: runs of the composed list against independent contexts do not share the
\* dispatch cursor: with recording steps every run produces the full mirrored
\* sequence in every interleaving, and no run is rejected with "multiple
\* times" unless one of its own steps calls next() twice.
C4_RunsIndependent ==
    /\ AllRecording =>
          \A r \in Runs :
              /\ IsPrefix(Pushes(run[r].log), Mirror(N))
              /\ Done(r) => (run[r].outcome = "resolved" /\ Pushes(run[r].log) = Mirror(N))
    /\ NoTwice =>
          \A r \in Runs : run[r].ret.e # "multiple times" /\ run[r].err # "multiple times"
    /\ \A r \in Runs, p \in {Root} \cup (0..(MaxLen - 1)) :
          (run[r].outcome = "idle") => IndexAt(index, Cell(r, p)) = Root

C4_Witness ==
    /\ middleware = <<"async", "async", "async">>
    /\ run[1].outcome = "running" /\ Pushes(run[1].log) = <<0, 1>>
    /\ run[2].outcome = "running" /\ Pushes(run[2].log) = <<0, 1, 2, 2>>

\* the step kinds that call next()
Forwarding(l) == \A k \in 1..Len(l) : l[k] \in {"async", "then", "catch", "twice", "sub"}

\* root step i has been entered (for a nested composition: all of its steps)
Entered(r, i) ==
    IF middleware[i + 1] = "sub"
    THEN \A k \in 0..(Len(innerMw) - 1) : <<i, k>> \in Range(run[r].calls)
    ELSE <<Root, i>> \in Range(run[r].calls)

\* the first step function invoked when root step i is dispatched
FirstCall(i) == IF middleware[i + 1] = "sub" THEN <<i, 0>> ELSE <<Root, i>>

\* C5: the outer continuation of a composed pipeline is invoked at most once,
\* only after every step of the list called next(), and once when they all do;
\* the steps of a nested composition are all invoked before the outer step
\* that follows it; a pipeline of zero steps invokes the outer continuation
\* at once, or resolves when none is supplied.
C5_ComposedIsMiddleware ==
    \A r \in Runs :
        /\ run[r].nextCalls <= 1
        /\ ~hasNext => run[r].nextCalls = 0
        /\ run[r].nextCalls = 1 =>
              /\ Forwarding(middleware)
              /\ ("sub" \in Range(middleware)) => Forwarding(innerMw)
              /\ \A i \in 0..(N - 1) : Entered(r, i)
        /\ (Done(r) /\ hasNext /\ Forwarding(middleware) /\ Forwarding(innerMw)) =>
              run[r].nextCalls = 1
        /\ \A j \in 0..(N - 2) :
              (middleware[j + 1] = "sub" /\ FirstCall(j + 1) \in Range(run[r].calls)) =>
                  /\ Forwarding(innerMw)
                  /\ \A k \in 0..(Len(innerMw) - 1) :
                        /\ <<j, k>> \in Range(run[r].calls)
                        /\ PosIn(run[r].calls, <<j, k>>) < PosIn(run[r].calls, FirstCall(j + 1))
        /\ (N = 0 /\ run[r].outcome # "idle") =>
              /\ run[r].frames = <<>>
              /\ run[r].nextCalls = IF hasNext THEN 1 ELSE 0
              /\ run[r].ret.st = "ok" \/ run[r].outcome = "resolved"

C5_Witness ==
    /\ middleware = <<"sub", "then">>
    /\ innerMw = <<"then">>
    /\ hasNext
    /\ run[1].outcome = "resolved"
    /\ run[1].nextCalls = 1
    /\ run[1].calls = <<<<0, 0>>, <<Root, 1>>>>

\* ------------------------------------------------------------------------
\* Set-up: compose(middleware) validation, Application.use, callback
\* ------------------------------------------------------------------------
\* values a caller may pass where a middleware function is expected
Values == {"f", "g", "null", "undefined", "zero", "false", "str", "obj"}

\* the JavaScript `typeof` of a value
TypeofCallableObj(v) == IF v \in {"f", "g", "obj"} THEN "function" ELSE "other"

Typeof(v) ==
    CASE v \in {"f", "g"} -> "function"
      [] v \in {"null", "obj"} -> "object"
      [] v = "undefined" -> "undefined"
      [] v = "zero" -> "number"
      [] v = "false" -> "boolean"
      [] OTHER -> "string"

\* an argument of compose(): an array of values, or something that is no array
Arr(items) == [isArray |-> TRUE, items |-> items]

NotArr(v) == [isArray |-> FALSE, items |-> <<v>>]

ComposeArgs == {Arr(l) : l \in SeqsUpTo(Values, 2)} \cup {NotArr(v) : v \in {"undefined", "obj", "f", "str"}}

\* compose(middleware): the checks before the composed function is returned
ComposeCheck(arg) ==
    IF ~arg.isArray
    THEN "Middleware stack must be an array!"
    ELSE IF \E k \in 1..Len(arg.items) : Typeof(arg.items[k]) # "function"
    THEN "Middleware must be composed of functions!"
    ELSE "fn"

\* compose(arg), called directly
ComposeCall(arg) ==
    /\ composed' = ComposeCheck(arg)
    /\ thrown' = IF ComposeCheck(arg) = "fn" THEN "none" ELSE "TypeError"
    /\ UNCHANGED <<appMw, serving, composeVars, reqVars, errVars, routerVars, proxyVars>>

\* app.use(func)
Use(v) ==
    /\ Len(appMw) < MaxUse
    /\ IF Typeof(v) # "function"
       THEN /\ thrown' = "TypeError"
            /\ UNCHANGED appMw
       ELSE /\ thrown' = "none"
            /\ appMw' = Append(appMw, v)
    /\ UNCHANGED <<composed, serving, composeVars, reqVars, errVars, routerVars, proxyVars>>

\* app.callback(): `const fn = this.compose(this.middleware)`, then the
\* request handler is returned
Callback ==
    /\ composed' = ComposeCheck(Arr(appMw))
    /\ IF ComposeCheck(Arr(appMw)) = "fn"
       THEN thrown' = "none" /\ serving' = TRUE
       ELSE thrown' = "TypeError" /\ UNCHANGED serving
    /\ UNCHANGED <<appMw, composeVars, reqVars, errVars, routerVars, proxyVars>>

ComposeIdle ==
    /\ middleware = <<>>
    /\ innerMw = <<>>
    /\ hasNext = FALSE
    /\ index = <<>>
    /\ run = [r \in Runs |-> InitRun]

SetupInit == ComposeIdle /\ SetupIdle /\ ReqIdle /\ ErrIdle /\ RouterIdle /\ ProxyIdle

SetupNext ==
    \/ \E arg \in ComposeArgs : ComposeCall(arg)
    \/ \E v \in Values : Use(v)
    \/ Callback

SpecSetup == SetupInit /\ [][SetupNext]_vars

\* C6: a middleware that is not callable is refused at set-up with a
\* TypeError: compose() throws for a non-array argument and for any element
\* that is not a function, Application.use() throws for any non-function and
\* leaves Application.middleware unchanged; a request handler exists only
\* over a list of functions.
C6_NonCallableFailsFast ==
    /\ [](/\ \A k \in 1..Len(appMw) : appMw[k] \in {"f", "g"}
          /\ serving => \A k \in 1..Len(appMw) : Typeof(appMw[k]) = "function")
    /\ [][/\ \A v \in Values \ {"f", "g"} :
                Use(v) => (thrown' = "TypeError" /\ appMw' = appMw)
          /\ \A arg \in ComposeArgs :
                (ComposeCall(arg) /\ (~arg.isArray \/ \E k \in 1..Len(arg.items) : arg.items[k] \notin {"f", "g"}))
                    => (thrown' = "TypeError" /\ composed' # "fn" /\ serving' = serving)]_vars

C6_Witness ==
    /\ appMw = <<"f", "g">>
    /\ thrown = "TypeError"
    /\ composed = "Middleware must be composed of functions!"
    /\ ~serving

\* ------------------------------------------------------------------------
\* response.js: the response facade over the transport
\* ------------------------------------------------------------------------
UpperLetters == "ABCDEFGHIJKLMNOPQRSTUVWXYZ"

LowerLetters == "abcdefghijklmnopqrstuvwxyz"

LowerChar(c) ==
    IF \E k \in 1..Len(UpperLetters) : SubSeq(UpperLetters, k, k) = c
    THEN LET k == CHOOSE k \in 1..Len(UpperLetters) : SubSeq(UpperLetters, k, k) = c
         IN  SubSeq(LowerLetters, k, k)
    ELSE c

\* header names are matched case-insensitively: k.toLowerCase()
RECURSIVE Lower(_)
Lower(str) ==
    IF str = "" THEN ""
    ELSE LowerChar(SubSeq(str, 1, 1)) \o Lower(SubSeq(str, 2, Len(str)))

\* statuses.empty
EmptyStatus(code) == code \in {204, 205, 304}

\* statuses.message[code]; "" stands for undefined
StatusMessage(code) ==
    CASE code = 200 -> "OK"
      [] code = 204 -> "No Content"
      [] code = 205 -> "Reset Content"
      [] code = 304 -> "Not Modified"
      [] code = 403 -> "Forbidden"
      [] code = 404 -> "Not Found"
      [] code = 405 -> "Method Not Allowed"
      [] code = 418 -> "I'm a Teapot"
      [] code = 500 -> "Internal Server Error"
      [] code = 501 -> "Not Implemented"
      [] OTHER -> ""

\* String(n)
NumStr(n) == ToString(n)

\* parseInt(str, 10) || 0, for the decimal strings of 0..999
ParseIntOr0(str) ==
    IF \E n \in 0..999 : ToString(n) = str
    THEN CHOOSE n \in 0..999 : ToString(n) = str
    ELSE 0

\* mimeTypes.contentType(type); "" stands for false
ContentType(type) ==
    CASE type = "text" -> "text/plain; charset=utf-8"
      [] type = "html" -> "text/html; charset=utf-8"
      [] type = "bin" -> "application/octet-stream"
      [] type = "json" -> "application/json; charset=utf-8"
      [] type = "application/json" -> "application/json; charset=utf-8"
      [] OTHER -> ""

\* str.split(";", 1)[0]
RECURSIVE BeforeSemicolon(_)
BeforeSemicolon(str) ==
    IF str = "" \/ SubSeq(str, 1, 1) = ";" THEN ""
    ELSE SubSeq(str, 1, 1) \o BeforeSemicolon(SubSeq(str, 2, Len(str)))

SetHdr(h, k, v) == [x \in DOMAIN h \cup {k} |-> IF x = k THEN v ELSE h[x]]

DelHdr(h, k) == [x \in DOMAIN h \ {k} |-> h[x]]

\* a facade call works on S = [res, resp, raised]
\* get headerSent
HeaderSent(S) == S.res.headersSent

\* has(field)
Has(S, field) == Lower(field) \in DOMAIN S.res.headers

\* get(field); "" stands for undefined
Get(S, field) == IF Has(S, field) THEN S.res.headers[Lower(field)] ELSE ""

\* set(field, value) with a string value
Set(S, field, value) ==
    IF HeaderSent(S) THEN S
    ELSE [S EXCEPT !.res.headers = SetHdr(@, Lower(field), value)]

\* remove(field)
Remove(S, field) ==
    IF HeaderSent(S) THEN S
    ELSE [S EXCEPT !.res.headers = DelHdr(@, Lower(field))]

\* get type
TypeOf(S) == BeforeSemicolon(Get(S, "Content-Type"))

\* set type
TypeAssign(S, type) ==
    IF ContentType(type) # ""
    THEN Set(S, "Content-Type", ContentType(type))
    ELSE Remove(S, "Content-Type")

\* set length
LengthAssign(S, n) ==
    IF ~Has(S, "Transfer-Encoding") THEN Set(S, "Content-Length", NumStr(n)) ELSE S

\* a JavaScript truthiness test of a body value
Truthy(b) == b.k \notin {"null", "undefined"} /\ ~(b.k = "string" /\ b.v = "")

\* get length: [def |-> FALSE] stands for undefined
LengthOf(S) ==
    IF Has(S, "Content-Length")
    THEN [def |-> TRUE, n |-> ParseIntOr0(Get(S, "Content-Length"))]
    ELSE IF ~Truthy(S.resp.body) \/ S.resp.body.k = "stream"
    THEN [def |-> FALSE, n |-> 0]
    ELSE [def |-> TRUE, n |-> S.resp.body.len]

\* get writable
WritableIgnoringSocket(S) == ~S.res.writableEnded

Writable(S) ==
    IF S.res.writableEnded THEN FALSE
    ELSE IF ~S.res.hasSocket THEN TRUE
    ELSE S.res.socketWritable

\* /^\s*</.test(str)
RECURSIVE LooksLikeHtml(_)
LooksLikeHtml(str) ==
    IF str = "" THEN FALSE
    ELSE IF SubSeq(str, 1, 1) = " " THEN LooksLikeHtml(SubSeq(str, 2, Len(str)))
    ELSE SubSeq(str, 1, 1) = "<"

\* a status value handed to `set status`: an integer or not
Code(n) == [int |-> TRUE, v |-> n]

NotInteger == [int |-> FALSE, v |-> 0]

RECURSIVE StatusAssign(_, _), BodyAssign(_, _)
\* set status
StatusAssignAssertFirst(S, code) ==
    IF ~code.int \/ code.v < 100 \/ code.v > 999
    THEN [S EXCEPT !.raised = "AssertionError"]
    ELSE IF HeaderSent(S) THEN S
    ELSE [S EXCEPT !.res.statusCode = code.v]

StatusAssign(S, code) ==
    IF HeaderSent(S) THEN S
    ELSE IF ~code.int \/ code.v < 100 \/ code.v > 999
    THEN [S EXCEPT !.raised = "AssertionError"]
    ELSE LET S1 == [S EXCEPT !.resp.explicitStatus = TRUE,
                             !.res.statusCode = code.v,
                             !.res.statusMessage =
                                 IF req.httpVersionMajor < 2 THEN StatusMessage(code.v) ELSE @]
         IN  IF Truthy(S1.resp.body) /\ EmptyStatus(code.v)
             THEN BodyAssign(S1, NullBody)
             ELSE S1

\* set body
BodyAssignKeepStatus(S, value) ==
    LET S1 == [S EXCEPT !.resp.body = value]
    IN  Remove(Remove(Remove(S1, "Content-Type"), "Content-Length"), "Transfer-Encoding")

BodyAssign(S, value) ==
    LET S1 == [S EXCEPT !.resp.body = value]
    IN  IF value.k \in {"null", "undefined"}
        THEN IF ~EmptyStatus(S1.res.statusCode) /\ TypeOf(S1) = "application/json"
             THEN [S1 EXCEPT !.resp.body = StrBody("null")]
             ELSE LET S2 == IF ~EmptyStatus(S1.res.statusCode)
                            THEN StatusAssign(S1, Code(204)) ELSE S1
                      S3 == IF value.k = "null"
                            THEN [S2 EXCEPT !.resp.explicitNullBody = TRUE] ELSE S2
                  IN  Remove(Remove(Remove(S3, "Content-Type"), "Content-Length"),
                             "Transfer-Encoding")
        ELSE LET S2 == IF ~S1.resp.explicitStatus THEN StatusAssign(S1, Code(200)) ELSE S1
                 setType == ~Has(S2, "Content-Type")
             IN  CASE value.k = "string" ->
                        LengthAssign(IF setType
                                     THEN TypeAssign(S2, IF LooksLikeHtml(value.v)
                                                         THEN "html" ELSE "text")
                                     ELSE S2,
                                     value.len)
                   [] value.k = "buffer" ->
                        LengthAssign(IF setType THEN TypeAssign(S2, "bin") ELSE S2, value.len)
                   [] value.k = "stream" ->
                        LET S3 == IF S.resp.body # value /\ S.resp.body.k \notin {"null", "undefined"}
                                  THEN Remove(S2, "Content-Length") ELSE S2
                        IN  IF setType THEN TypeAssign(S3, "bin") ELSE S3
                   [] OTHER -> TypeAssign(Remove(S2, "Content-Length"), "json")

\* res.end(data): the headers go out with the data
End(S, data) ==
    [S EXCEPT !.res.headersSent = TRUE,
              !.res.writableEnded = TRUE,
              !.res.endCalls = @ + 1,
              !.res.sent = @ \o data]

\* body.pipe(res): the data flows later
Pipe2Res(S) == [S EXCEPT !.res.piped = TRUE]

\* get message
Message(S) ==
    IF S.res.statusMessage # "" THEN S.res.statusMessage
    ELSE StatusMessage(S.res.statusCode)

\* ------------------------------------------------------------------------
\* index.js: handleResponse, the finalization after the pipeline resolved
\* ------------------------------------------------------------------------
\* the HEAD branch: derive Content-Length when none is set, then end
HeadBranchSendsBody(S) == End(S, S.resp.body.v)

HeadBranch(S) ==
    LET l  == LengthOf(S)
        S1 == IF ~S.res.headersSent /\ ~Has(S, "Content-Length") /\ l.def
              THEN LengthAssign(S, l.n) ELSE S
    IN  End(S1, "")

\* the branch for a body that is null or undefined
NoBodyBranchStatusText(S) ==
    LET text == IF req.httpVersionMajor >= 2 THEN NumStr(S.res.statusCode)
                ELSE IF Message(S) # "" THEN Message(S)
                ELSE NumStr(S.res.statusCode)
        S1   == IF ~S.res.headersSent
                THEN LengthAssign(TypeAssign(S, "text"), ByteLength(text)) ELSE S
    IN  End(S1, text)

NoBodyBranch(S) ==
    IF S.resp.explicitNullBody
    THEN End(LengthAssign(Remove(Remove(S, "Content-Type"), "Transfer-Encoding"), 0), "")
    ELSE LET text == IF req.httpVersionMajor >= 2 THEN NumStr(S.res.statusCode)
                     ELSE IF Message(S) # "" THEN Message(S)
                     ELSE NumStr(S.res.statusCode)
             S1   == IF ~S.res.headersSent
                     THEN LengthAssign(TypeAssign(S, "text"), ByteLength(text)) ELSE S
         IN  End(S1, text)

\* the guards of handleResponse
RespondsWhenEnded(S) == respond

Responds(S) == respond /\ Writable(S)

HandleResponseHeadFirst(S) ==
    IF ~Responds(S) THEN S
    ELSE IF req.method = "HEAD" THEN HeadBranch(S)
    ELSE IF EmptyStatus(S.res.statusCode) THEN End(BodyAssign(S, NullBody), "")
    ELSE IF S.resp.body.k \in {"null", "undefined"} THEN NoBodyBranch(S)
    ELSE IF S.resp.body.k \in {"buffer", "string"} THEN End(S, S.resp.body.v)
    ELSE IF S.resp.body.k = "stream" THEN Pipe2Res(S)
    ELSE End(IF ~S.res.headersSent THEN LengthAssign(S, S.resp.body.len) ELSE S,
             S.resp.body.v)

HandleResponse(S) ==
    IF ~Responds(S) THEN S
    ELSE IF EmptyStatus(S.res.statusCode) THEN End(BodyAssign(S, NullBody), "")
    ELSE IF req.method = "HEAD" THEN HeadBranch(S)
    ELSE IF S.resp.body.k \in {"null", "undefined"} THEN NoBodyBranch(S)
    ELSE IF S.resp.body.k \in {"buffer", "string"} THEN End(S, S.resp.body.v)
    ELSE IF S.resp.body.k = "stream" THEN Pipe2Res(S)
    ELSE End(IF ~S.res.headersSent THEN LengthAssign(S, S.resp.body.len) ELSE S,
             S.resp.body.v)

\* ------------------------------------------------------------------------
\* One request: what middleware does to the context, then finalization
\* ------------------------------------------------------------------------
Here == [res |-> res, resp |-> resp, raised |-> raised]

\* a middleware operation leaves S; an error thrown by the facade fails the
\* pipeline
Apply(S) ==
    /\ res' = S.res
    /\ resp' = S.resp
    /\ raised' = S.raised
    /\ phase' = IF S.raised # "none" THEN "failed" ELSE phase
    /\ ops' = ops + 1
    /\ UNCHANGED <<req, respond, composeVars, setupVars, errVars, routerVars, proxyVars>>

InMiddleware == phase = "mw" /\ ops < MaxOps

StatusInputs == {Code(200), Code(204), Code(304), Code(404), Code(99), NotInteger}

BodyInputs == {NullBody, UndefBody, StrBody(""), StrBody("Hello"), BufBody("Hello"),
               StreamBody, ObjBody("{}")}

HeaderInputs == {<<"Transfer-Encoding", "chunked">>, <<"Content-Length", "3">>,
                 <<"X-Foo", "bar">>}

RemoveInputs == {"Content-Type", "X-Foo"}

TypeInputs == {"json", "text"}

\* ctx.status = code
MwStatus(code) == InMiddleware /\ Apply(StatusAssign(Here, code))

\* ctx.body = value
MwBody(value) == InMiddleware /\ Apply(BodyAssign(Here, value))

\* ctx.set(field, value)
MwSet(field, value) == InMiddleware /\ Apply(Set(Here, field, value))

\* ctx.remove(field)
MwRemove(field) == InMiddleware /\ Apply(Remove(Here, field))

\* ctx.type = type
MwType(type) == InMiddleware /\ Apply(TypeAssign(Here, type))

\* ctx.respond = false
MwRespondFalse ==
    /\ InMiddleware
    /\ respond
    /\ respond' = FALSE
    /\ ops' = ops + 1
    /\ UNCHANGED <<req, res, resp, raised, phase, composeVars, setupVars, errVars,
                   routerVars, proxyVars>>

\* ctx.flushHeaders() or res.write(chunk): the headers are on the wire
MwFlushHeaders ==
    /\ InMiddleware
    /\ ~res.writableEnded
    /\ Apply([Here EXCEPT !.res.headersSent = TRUE])

\* res.end(chunk) called by the middleware itself on the raw transport
MwEndRaw ==
    /\ InMiddleware
    /\ ~res.writableEnded
    /\ Apply([Here EXCEPT !.res.headersSent = TRUE,
                          !.res.writableEnded = TRUE,
                          !.res.sent = @ \o "lol"])

\* the client went away: socket.writable = false
SocketUnwritable ==
    /\ InMiddleware
    /\ res.hasSocket /\ res.socketWritable
    /\ Apply([Here EXCEPT !.res.socketWritable = FALSE])

\* fnMiddleware(ctx).then(handleResponse)
Finalize ==
    /\ phase = "mw"
    /\ LET S == HandleResponse(Here)
       IN  /\ res' = S.res
           /\ resp' = S.resp
           /\ raised' = S.raised
    /\ phase' = "done"
    /\ UNCHANGED <<req, respond, ops, composeVars, setupVars, errVars, routerVars, proxyVars>>

RespInit ==
    /\ ProxyIdle
    /\ ComposeIdle
    /\ SetupIdle
    /\ ErrIdle
    /\ RouterIdle
    /\ req \in [method : {"GET", "HEAD"}, httpVersionMajor : {1, 2}]
    /\ res \in {NewRes(hs) : hs \in BOOLEAN}
    /\ resp = NewResp
    /\ respond = TRUE
    /\ raised = "none"
    /\ phase = "mw"
    /\ ops = 0

RespNext ==
    \/ \E code \in StatusInputs : MwStatus(code)
    \/ \E value \in BodyInputs : MwBody(value)
    \/ \E h \in HeaderInputs : MwSet(h[1], h[2])
    \/ \E field \in RemoveInputs : MwRemove(field)
    \/ \E type \in TypeInputs : MwType(type)
    \/ MwRespondFalse
    \/ MwFlushHeaders
    \/ MwEndRaw
    \/ SocketUnwritable
    \/ Finalize

SpecResp == RespInit /\ [][RespNext]_vars

\* ------------------------------------------------------------------------
\* Properties of the response facade and of finalization
\* ------------------------------------------------------------------------
\* C7: when ctx.respond === false, or the transport is not writable (already
\* ended, or its socket not writable), finalization leaves the transport as it
\* is: no status, no header, no end.
C7_NoRespondNoWrite ==
    [][(Finalize /\ (~respond \/ res.writableEnded
                     \/ (res.hasSocket /\ ~res.socketWritable)))
          => (res' = res /\ resp' = resp)]_vars

C7_Witness ==
    /\ phase = "done"
    /\ respond
    /\ res.hasSocket /\ ~res.socketWritable
    /\ resp.body = StrBody("Hello")
    /\ res.endCalls = 0 /\ ~res.headersSent /\ ~res.writableEnded

\* finalization of a HEAD request with a status outside the empty table
HeadFinalize ==
    /\ Finalize
    /\ Responds(Here)
    /\ req.method = "HEAD"
    /\ ~EmptyStatus(res.statusCode)

\* the transport was ended by this step with no payload
EndedEmpty ==
    /\ res'.writableEnded
    /\ res'.endCalls = res.endCalls + 1
    /\ res'.sent = res.sent

\* Content-Length was set by this step to the length derived from the body
DerivedLengthSet ==
    /\ "content-length" \in DOMAIN res'.headers
    /\ res'.headers["content-length"] = NumStr(resp.body.len)

\* C8 as stated: a HEAD finalization ends with zero body bytes and sets
\* Content-Length whenever none is present and a length is derivable.
C8_Original ==
    [][HeadFinalize =>
          /\ EndedEmpty
          /\ (~Has(Here, "Content-Length") /\ LengthOf(Here).def) => DerivedLengthSet]_vars

\* C8 (amended): a HEAD finalization with a status outside the empty table
\* ends the transport with zero body bytes whatever the body is; when the
\* headers have not been sent, neither Content-Length nor Transfer-Encoding is
\* present and a length is derivable from the body, Content-Length is set to
\* that length; otherwise the headers are left as they are.
C8_HeadNoBody ==
    [][HeadFinalize =>
          /\ EndedEmpty
          /\ IF /\ ~res.headersSent
                /\ ~Has(Here, "Content-Length")
                /\ ~Has(Here, "Transfer-Encoding")
                /\ LengthOf(Here).def
             THEN DerivedLengthSet /\ resp.body.k \in {"string", "buffer", "object"}
             ELSE res'.headers = res.headers]_vars

C8_Witness ==
    /\ phase = "done"
    /\ req.method = "HEAD"
    /\ resp.body = ObjBody("{}")
    /\ res.statusCode = 200
    /\ res.endCalls = 1 /\ res.sent = ""
    /\ "content-length" \in DOMAIN res.headers
    /\ res.headers["content-length"] = "2"

\* a status assignment, a header set or remove, or a body assignment made
\* through the context
FacadeMutation ==
    \/ \E code \in StatusInputs : MwStatus(code)
    \/ \E h \in HeaderInputs : MwSet(h[1], h[2])
    \/ \E field \in RemoveInputs : MwRemove(field)
    \/ \E type \in TypeInputs : MwType(type)
    \/ \E value \in BodyInputs : MwBody(value)

\* C9: once the headers have been sent, a status assignment (also of an
\* invalid value) and a header set or remove through the facade change
\* neither the status nor the headers of the transport and throw nothing.
C9_FrozenAfterHeaderSent ==
    [][(res.headersSent /\ FacadeMutation) =>
          /\ res'.statusCode = res.statusCode
          /\ res'.statusMessage = res.statusMessage
          /\ res'.headers = res.headers
          /\ raised' = "none"
          /\ phase' = "mw"]_vars

C9_Witness ==
    /\ phase = "mw"
    /\ ops = 2
    /\ res.headersSent /\ ~res.writableEnded
    /\ resp.body = StrBody("Hello")
    /\ res.statusCode = 404
    /\ res.headers = <<>>
    /\ raised = "none"

\* body = null or body = undefined, assigned through the context
NullAssign == \E value \in {NullBody, UndefBody} : MwBody(value)

NoEntityHeaders(h) ==
    {"content-type", "content-length", "transfer-encoding"} \cap DOMAIN h = {}

\* C10 as stated: null/undefined on a non-empty status gives 204 and strips
\* the entity headers unless the type is application/json.
C10_Original ==
    [][NullAssign =>
          IF EmptyStatus(res.statusCode) THEN res'.statusCode = res.statusCode
          ELSE IF TypeOf(Here) = "application/json"
               THEN resp'.body = StrBody("null") /\ res'.statusCode = res.statusCode
               ELSE res'.statusCode = 204 /\ NoEntityHeaders(res'.headers)]_vars

\* C10 (amended): while the headers have not been sent, assigning null or
\* undefined to body with a status outside the empty table sets the status to
\* 204 and removes Content-Type, Content-Length and Transfer-Encoding, except
\* when the content type is application/json: then the body becomes the
\* string "null" and status and headers stay; with a status of the empty table
\* the status stays. Once the headers have been sent the assignment changes
\* neither status nor headers.
C10_NullBody ==
    [][NullAssign =>
          IF res.headersSent
          THEN res'.statusCode = res.statusCode /\ res'.headers = res.headers
          ELSE IF EmptyStatus(res.statusCode)
          THEN res'.statusCode = res.statusCode /\ NoEntityHeaders(res'.headers)
          ELSE IF TypeOf(Here) = "application/json"
               THEN /\ resp'.body = StrBody("null")
                    /\ res'.statusCode = res.statusCode
                    /\ res'.headers = res.headers
               ELSE /\ res'.statusCode = 204
                    /\ NoEntityHeaders(res'.headers)
                    /\ resp'.body \in {NullBody, UndefBody}]_vars

C10_Witness ==
    /\ phase = "mw"
    /\ ops = 1
    /\ resp.body = NullBody
    /\ resp.explicitNullBody
    /\ res.statusCode = 204
    /\ ~res.headersSent

\* finalization of a request that is not HEAD, with a status outside the empty
\* table and a body that is null or undefined
NullBodyFinalize ==
    /\ Finalize
    /\ Responds(Here)
    /\ req.method # "HEAD"
    /\ ~EmptyStatus(res.statusCode)
    /\ resp.body.k \in {"null", "undefined"}

\* the finalized response of C11: no Content-Type, no Transfer-Encoding,
\* Content-Length 0 and an empty payload
BareResponse ==
    /\ "content-type" \notin DOMAIN res'.headers
    /\ "transfer-encoding" \notin DOMAIN res'.headers
    /\ "content-length" \in DOMAIN res'.headers
    /\ res'.headers["content-length"] = "0"
    /\ EndedEmpty

\* C11 as stated: body = null assigned after an explicit status = 404 leaves
\* the status at 404.
C11_Original ==
    [][(MwBody(NullBody) /\ resp.explicitStatus /\ res.statusCode = 404)
          => res'.statusCode = 404]_vars

\* C11 (amended): an explicit status = 404 assigned after body = null (headers
\* not yet sent) gives status 404 and keeps the body an explicit null; and when
\* a request that is not HEAD is finalized with an explicit null body, status
\* 404 and the headers not yet sent, the response keeps status 404, has no
\* Content-Type or Transfer-Encoding header, Content-Length 0 and an empty
\* payload. (body = null assigned after status = 404 changes the status to
\* 204 unless the type is application/json.)
C11_ExplicitNullKeepsStatus ==
    /\ [][(MwStatus(Code(404)) /\ ~res.headersSent /\ resp.explicitNullBody
              /\ resp.body = NullBody)
             => /\ res'.statusCode = 404
                /\ resp'.body = NullBody
                /\ resp'.explicitNullBody
                /\ res'.headers = res.headers]_vars
    /\ [][(NullBodyFinalize /\ resp.explicitNullBody /\ res.statusCode = 404
              /\ ~res.headersSent)
             => (res'.statusCode = 404 /\ BareResponse)]_vars

C11_Witness ==
    /\ phase = "done"
    /\ req.method = "GET"
    /\ resp.body = NullBody /\ resp.explicitNullBody /\ resp.explicitStatus
    /\ res.statusCode = 404
    /\ DOMAIN res.headers = {"content-length"}
    /\ res.headers["content-length"] = "0"
    /\ res.endCalls = 1 /\ res.sent = ""

\* ------------------------------------------------------------------------
\* context.js: onerror, the error routing of one request
\* ------------------------------------------------------------------------
\* a JavaScript truthiness test of a status / statusCode property
StatusTruthy(v) == v.t = "string" \/ (v.t = "number" /\ v.n # 0)

\* err.status || err.statusCode
StatusOrStatusCode(e) == IF StatusTruthy(e.status) THEN e.status ELSE e.statusCode

\* the status selection of onerror, as a value for `set status`
StatusCodeNoDefault(e) ==
    LET own == StatusOrStatusCode(e)
    IN  IF e.code = "ENOENT" THEN Code(404)
        ELSE [int |-> own.t = "number", v |-> own.n]

StatusCode(e) ==
    LET own   == StatusOrStatusCode(e)
        enoent == IF e.code = "ENOENT" THEN Num(404) ELSE own
    IN  IF enoent.t # "number" \/ StatusMessage(enoent.n) = "" THEN Code(500)
        ELSE Code(enoent.n)

\* the body of the error response
MsgAlwaysMessage(e, code) == e.message

Msg(e, code) == IF e.expose THEN e.message ELSE StatusMessage(code)

\* a value that is not Error-shaped is replaced by
\* new Error(format("non-error thrown: %j", err))
WrapNonErrorKeep(e) == e

WrapNonError(e) ==
    IF e.isError THEN e ELSE NewError("non-error thrown: " \o e.json)

\* this.app.emit("error", err, this), placed before `if (headerSent) return`
EmitUnlessSent(em, e, sent) == IF sent THEN em ELSE Append(em, e)

Emit(em, e, sent) == Append(em, e)

\* res.getHeaderNames().forEach(name => res.removeHeader(name))
RemoveAll(S) == [S EXCEPT !.res.headers = <<>>]

\* this.set(err.headers): set(key, value) for each key of the object, in order
RECURSIVE SetAll(_, _)
SetAll(S, hs) ==
    IF hs = <<>> THEN S
    ELSE SetAll(Set(S, hs[1][1], hs[1][2]), Tail(hs))

\* onerror(err) on T = [res, resp, raised, err, emitted]; T.raised is set when
\* onerror itself throws
OnError(S, e0, em) ==
    LET T0 == [res |-> S.res, resp |-> S.resp, raised |-> "none",
               err |-> e0, emitted |-> em]
    IN  IF e0.nul THEN T0
        ELSE LET e1   == WrapNonError(e0)
                 sent == HeaderSent(S) \/ ~Writable(S)
                 e2   == IF sent THEN [e1 EXCEPT !.headerSent = TRUE] ELSE e1
                 em2  == Emit(em, e2, sent)
             IN  IF sent THEN [T0 EXCEPT !.err = e2, !.emitted = em2]
                 ELSE LET S1   == [RemoveAll(S) EXCEPT !.raised = "none"]
                          S2   == TypeAssign(SetAll(S1, e2.headers), "text")
                          code == StatusCode(e2)
                          msg  == Msg(e2, code.v)
                          e3   == [e2 EXCEPT !.status = Num(code.v)]
                          S3   == StatusAssign(S2, code)
                          S4   == IF S3.raised # "none" THEN S3
                                  ELSE End(LengthAssign(S3, ByteLength(msg)), msg)
                      IN  [res |-> S4.res, resp |-> S4.resp, raised |-> S4.raised,
                           err |-> e3, emitted |-> em2]

\* the AssertionError of `set status` for a value that is not an integer
AssertionError ==
    [NewError("status code must be a number") EXCEPT !.code = "ERR_ASSERTION"]

\* an error of the connection, reported by on-finished
SocketError == [NewError("socket hang up") EXCEPT !.code = "ECONNRESET"]

\* what the pipeline rejected with
Failure == IF raised # "none" THEN AssertionError ELSE err

ErrHeaders == {<<>>, << <<"X-New-Header", "Value">> >>,
               << <<"Transfer-Encoding", "chunked">> >>}

\* the values a middleware throws
ThrowInputs ==
    {NullErr, NonError("\"string error\""), NonError("{\"key\":\"value\"}"),
     NonError("{\"status\":404}")}
    \cup {[NewError("boom") EXCEPT !.status = s, !.statusCode = sc, !.code = c] :
            s \in {Undef, Num(403), Num(204), Num(9999), Str},
            sc \in {Undef, Num(404)}, c \in {"", "ENOENT"}}
    \cup {[NewError(m) EXCEPT !.status = s, !.expose = x, !.headers = h] :
            m \in {"boom", "sorry!"}, s \in {Undef, Num(418)}, x \in BOOLEAN,
            h \in ErrHeaders}

ErrStatusInputs == {Code(200), NotInteger}

ErrBodyInputs == {StrBody("response"), StreamBody}

\* an error of a stream that was set as the body
NoSuchFile == [NewError("ENOENT: no such file or directory") EXCEPT !.code = "ENOENT"]

ErrSetInputs == {<<"Vary", "Accept-Encoding">>, <<"Transfer-Encoding", "chunked">>}

\* a middleware throws e, or returns a promise rejected with e
MwThrow(e) ==
    /\ phase = "mw"
    /\ err' = e
    /\ phase' = "failed"
    /\ UNCHANGED <<req, res, resp, respond, raised, ops, emitted, composeVars, setupVars,
                   routerVars, proxyVars>>

\* fnMiddleware(ctx).then(handleResponse).catch(onerror)
CatchOnError ==
    /\ phase = "failed"
    /\ LET T == OnError(Here, Failure, emitted)
       IN  /\ res' = T.res
           /\ resp' = T.resp
           /\ raised' = T.raised
           /\ err' = T.err
           /\ emitted' = T.emitted
           /\ phase' = IF T.raised # "none" THEN "escaped" ELSE "handled"
    /\ UNCHANGED <<req, respond, ops, composeVars, setupVars, routerVars, proxyVars>>

\* onFinished(res, onerror): the response finished (null) or the connection
\* failed (an error, the socket being no longer writable)
Finished(e) ==
    /\ phase \in {"done", "handled"}
    /\ IF e.nul THEN res.writableEnded ELSE res.hasSocket
    /\ LET S == IF e.nul THEN Here ELSE [Here EXCEPT !.res.socketWritable = FALSE]
           T == OnError(S, e, emitted)
       IN  /\ res' = T.res
           /\ resp' = T.resp
           /\ raised' = T.raised
           /\ err' = T.err
           /\ emitted' = T.emitted
    /\ phase' = "closed"
    /\ UNCHANGED <<req, respond, ops, composeVars, setupVars, routerVars, proxyVars>>

\* value.once("error", err => this.ctx.onerror(err)): the stream that is the
\* body fails, while the middleware waits or after the pipeline has settled
BodyError(e) ==
    /\ phase \in {"mw", "done", "handled"}
    /\ resp.body.k = "stream"
    /\ ~resp.bodyErrored
    /\ LET T == OnError(Here, e, emitted)
       IN  /\ res' = T.res
           /\ resp' = [T.resp EXCEPT !.bodyErrored = TRUE]
           /\ raised' = T.raised
           /\ err' = T.err
           /\ emitted' = T.emitted
           /\ phase' = IF T.raised # "none" THEN "escaped" ELSE phase
    /\ UNCHANGED <<req, respond, ops, composeVars, setupVars, routerVars, proxyVars>>

\* body.pipe(res): a first chunk of the body is written, the headers go out
BodyData ==
    /\ phase = "done"
    /\ res.piped
    /\ ~resp.bodyErrored
    /\ ~res.headersSent
    /\ ~res.writableEnded
    /\ res' = [res EXCEPT !.headersSent = TRUE, !.sent = @ \o "chunk"]
    /\ UNCHANGED <<req, resp, respond, raised, phase, ops, errVars, composeVars, setupVars,
                   routerVars, proxyVars>>

\* body.pipe(res): the body was read to its end, the pipe ends res
BodyEnd ==
    /\ phase = "done"
    /\ res.piped
    /\ ~resp.bodyErrored
    /\ ~res.writableEnded
    /\ res' = [res EXCEPT !.headersSent = TRUE, !.writableEnded = TRUE]
    /\ UNCHANGED <<req, resp, respond, raised, phase, ops, errVars, composeVars, setupVars,
                   routerVars, proxyVars>>

ErrInit ==
    /\ ProxyIdle
    /\ ComposeIdle
    /\ SetupIdle
    /\ ErrIdle
    /\ RouterIdle
    /\ req \in [method : {"GET"}, httpVersionMajor : {1, 2}]
    /\ res \in {NewRes(hs) : hs \in BOOLEAN}
    /\ resp = NewResp
    /\ respond = TRUE
    /\ raised = "none"
    /\ phase = "mw"
    /\ ops = 0

ErrNext ==
    \/ \E code \in ErrStatusInputs : MwStatus(code)
    \/ \E value \in ErrBodyInputs : MwBody(value)
    \/ \E h \in ErrSetInputs : MwSet(h[1], h[2])
    \/ MwFlushHeaders
    \/ MwEndRaw
    \/ SocketUnwritable
    \/ Finalize
    \/ \E e \in ThrowInputs : MwThrow(e)
    \/ CatchOnError
    \/ \E e \in {NullErr, SocketError} : Finished(e)
    \/ \E e \in {NoSuchFile, SocketError} : BodyError(e)
    \/ BodyData
    \/ BodyEnd

SpecErr == ErrInit /\ [][ErrNext]_vars

\* ------------------------------------------------------------------------
\* Properties of the error routing
\* ------------------------------------------------------------------------
\* onerror handles a pipeline failure while it can still write the response
CatchWrites ==
    /\ CatchOnError
    /\ ~Failure.nul
    /\ ~res.headersSent
    /\ Writable(Here)

\* the status selection as C12 states it: own status, then ENOENT, then 500
ClaimedStatusCode(e) ==
    LET own == StatusOrStatusCode(e)
    IN  IF own.t = "number" /\ StatusMessage(own.n) # "" THEN Code(own.n)
        ELSE IF e.code = "ENOENT" THEN Code(404)
        ELSE Code(500)

\* C12 as stated: the status of the error response is the error's own status
\* when that is a known numeric status, otherwise 404 for ENOENT, otherwise 500.
C12_Original ==
    [][CatchWrites => res'.statusCode = ClaimedStatusCode(WrapNonError(Failure)).v]_vars

\* C12 (amended): when a pipeline failure reaches onerror before the headers
\* are sent and while the response is writable, the status is 404 when the
\* error code is ENOENT (also when the error carries a status of its own),
\* otherwise the error's own status (status when truthy, else statusCode) when
\* that is a number with a known reason phrase, otherwise 500; the same value
\* is stored in err.status.
C12_StatusPriority ==
    [][CatchWrites =>
          LET e   == WrapNonError(Failure)
              own == IF StatusTruthy(e.status) THEN e.status ELSE e.statusCode
              sel == IF e.code = "ENOENT" THEN 404
                     ELSE IF own.t = "number" /\ StatusMessage(own.n) # "" THEN own.n
                     ELSE 500
          IN  /\ res'.statusCode = sel
              /\ err'.status = Num(sel)
              /\ phase' = "handled"]_vars

C12_Witness ==
    /\ phase = "handled"
    /\ err.code = "ENOENT"
    /\ err.status = Num(404)
    /\ res.statusCode = 404
    /\ res.sent = "Not Found"
    /\ Len(emitted) = 1 /\ emitted[1].status = Num(403)

\* message texts an error may carry
Messages == {"boom", "sorry!", "s3 explodes"}

\* C13: a failure that is not marked exposable is answered with the reason
\* phrase of the chosen status, and the response (status, headers, payload) is
\* the same whatever the error's message text is; an exposable error is
\* answered with its message.
C13_MessageNotLeaked ==
    [][CatchWrites =>
          LET e == WrapNonError(Failure)
          IN  IF e.expose
              THEN res'.sent = e.message
              ELSE /\ res'.sent = StatusMessage(res'.statusCode)
                   /\ \A m \in Messages :
                        OnError(Here, [Failure EXCEPT !.message = m], emitted).res = res']_vars

C13_Witness ==
    /\ phase = "handled"
    /\ err.message = "sorry!"
    /\ ~err.expose
    /\ res.statusCode = 418
    /\ res.sent = "I'm a Teapot"

\* an onerror call with an error that is not null: the catch of the pipeline,
\* or the on-finished callback reporting a connection error
CatchCall == CatchOnError /\ ~Failure.nul

FinishedCall == Finished(SocketError)

\* C14: every onerror call with a non-null error emits the application's
\* "error" event exactly once; when the headers were already sent or the
\* response is not writable the emitted error is marked headerSent and status,
\* headers and payload of the transport are untouched and it is not ended.
C14_EmitOnce ==
    [][(CatchCall \/ FinishedCall) =>
          /\ Len(emitted') = Len(emitted) + 1
          /\ SubSeq(emitted', 1, Len(emitted)) = emitted
          /\ emitted'[Len(emitted')].isError
          /\ (res.headersSent \/ ~Writable(Here) \/ FinishedCall) =>
                /\ emitted'[Len(emitted')].headerSent
                /\ err'.headerSent
                /\ res'.statusCode = res.statusCode
                /\ res'.statusMessage = res.statusMessage
                /\ res'.headers = res.headers
                /\ res'.sent = res.sent
                /\ res'.endCalls = res.endCalls
                /\ res'.writableEnded = res.writableEnded
                /\ res'.headersSent = res.headersSent
                /\ resp' = resp]_vars

C14_Witness ==
    /\ phase = "handled"
    /\ res.headersSent /\ ~res.writableEnded
    /\ res.endCalls = 0 /\ res.sent = ""
    /\ "vary" \in DOMAIN res.headers
    /\ Len(emitted) = 1
    /\ emitted[1].message = "boom" /\ emitted[1].headerSent

\* a middleware threw a value that is not Error-shaped
NonErrorCaught == CatchOnError /\ ~Failure.isError

\* the emitted value is an Error carrying the JSON form of the thrown value
WrappedEmitted ==
    /\ Len(emitted') = Len(emitted) + 1
    /\ emitted'[Len(emitted')].isError
    /\ emitted'[Len(emitted')].message = "non-error thrown: " \o Failure.json

\* the client is answered 500 with the generic reason phrase
Answered500 ==
    /\ res'.statusCode = 500
    /\ res'.sent = "Internal Server Error"
    /\ res'.writableEnded

\* C15 as stated: any thrown value that is not Error-shaped is emitted wrapped,
\* answered with 500 and the generic phrase, and does not reject the handler.
C15_Original ==
    [][NonErrorCaught => (WrappedEmitted /\ Answered500 /\ phase' = "handled")]_vars

\* C15 (amended): a thrown value that is not Error-shaped and not null or
\* undefined reaches the "error" listeners as an Error whose message is
\* "non-error thrown: " followed by the JSON form of the value, and the failure
\* does not reject the request handler; when the headers were not yet sent and
\* the response is writable the client receives status 500 with the generic
\* reason phrase. (A thrown null or undefined is dropped by onerror: nothing
\* is emitted and nothing is written.)
C15_NonErrorWrapped ==
    [][NonErrorCaught =>
          IF Failure.nul
          THEN emitted' = emitted /\ res' = res /\ phase' = "handled"
          ELSE /\ WrappedEmitted
               /\ phase' = "handled"
               /\ (~res.headersSent /\ Writable(Here)) => Answered500]_vars

C15_Witness ==
    /\ phase = "handled"
    /\ Len(emitted) = 1
    /\ emitted[1].message = "non-error thrown: {\"status\":404}"
    /\ err.status = Num(500)
    /\ res.statusCode = 500
    /\ res.sent = "Internal Server Error"

\* the header names of err.headers as the transport stores them
RECURSIVE HeadersOf(_)
HeadersOf(hs) ==
    IF hs = <<>> THEN <<>>
    ELSE SetHdr(HeadersOf(SubSeq(hs, 1, Len(hs) - 1)), Lower(hs[Len(hs)][1]), hs[Len(hs)][2])

\* C16: when onerror writes the error response the outgoing headers are exactly
\* the error's headers plus Content-Type text/plain and the Content-Length of
\* the error body; no header set by middleware before the failure remains.
C16_Original ==
    [][CatchWrites =>
          res'.headers =
             SetHdr(SetHdr(HeadersOf(WrapNonError(Failure).headers),
                           "content-type", "text/plain; charset=utf-8"),
                    "content-length", NumStr(ByteLength(res'.sent)))]_vars

\* ------------------------------------------------------------------------
\* response.js (router part): Layer, Router.match, routes(), allowedMethods()
\* ------------------------------------------------------------------------
\* str.startsWith(prefix)
StartsWith(str, prefix) ==
    Len(prefix) <= Len(str) /\ SubSeq(str, 1, Len(prefix)) = prefix

\* str.slice(n), str.slice(0, n)
Drop(str, n) == SubSeq(str, n + 1, Len(str))

Take(str, n) == SubSeq(str, 1, n)

\* path-to-regexp: a character of a parameter name
IsWord(c) == c \notin {"/", "(", ")", "?", ":", ".", "-", "*", "[", "]", "^", "%", " "}

RECURSIVE WordLen(_)
WordLen(str) ==
    IF str = "" \/ ~IsWord(Take(str, 1)) THEN 0 ELSE 1 + WordLen(Drop(str, 1))

\* the position of the first ")" of str
RECURSIVE CloseAt(_)
CloseAt(str) ==
    IF str = "" THEN 0
    ELSE IF Take(str, 1) = ")" THEN 1
    ELSE 1 + CloseAt(Drop(str, 1))

\* path-to-regexp tokens: a literal text, or a key (a parameter) with its
\* name, its prefix, its pattern and its "?" modifier
Lit(text) == [lit |-> text, name |-> "", prefix |-> "", pattern |-> "", optional |-> FALSE]

Key(name, prefix, pattern, optional) ==
    [lit |-> "", name |-> name, prefix |-> prefix, pattern |-> pattern, optional |-> optional]

IsKey(token) == token.pattern # ""

\* path-to-regexp parse(path): ":name" takes the pattern [^/]+? unless a
\* "(pattern)" follows it, a bare "(pattern)" is named by its index, a "/" or
\* "." right before a parameter is its prefix; lit is the pending literal text,
\* key the index of the next unnamed parameter
RECURSIVE Parse(_, _, _)
Parse(str, lit, key) ==
    IF str = "" THEN (IF lit = "" THEN <<>> ELSE <<Lit(lit)>>)
    ELSE IF Take(str, 1) \notin {":", "("} THEN Parse(Drop(str, 1), lit \o Take(str, 1), key)
    ELSE LET named   == Take(str, 1) = ":"
             nlen    == IF named THEN WordLen(Drop(str, 1)) ELSE 0
             name    == IF named THEN SubSeq(str, 2, 1 + nlen) ELSE ToString(key)
             rest1   == IF named THEN Drop(str, 1 + nlen) ELSE str
             hasPat  == rest1 # "" /\ Take(rest1, 1) = "("
             plen    == IF hasPat THEN CloseAt(rest1) ELSE 0
             pattern == IF hasPat THEN SubSeq(rest1, 2, plen - 1) ELSE "[^/]+?"
             rest2   == Drop(rest1, plen)
             opt     == rest2 # "" /\ Take(rest2, 1) = "?"
             rest3   == IF opt THEN Drop(rest2, 1) ELSE rest2
             last    == IF lit = "" THEN "" ELSE SubSeq(lit, Len(lit), Len(lit))
             prefix  == IF last \in {"/", "."} THEN last ELSE ""
             lit1    == IF prefix = "" THEN lit ELSE Take(lit, Len(lit) - 1)
         IN  (IF lit1 = "" THEN <<>> ELSE <<Lit(lit1)>>)
                \o <<Key(name, prefix, pattern, opt)>>
                \o Parse(rest3, "", IF named THEN key ELSE key + 1)

\* pathToRegexp(path, keys, opts): the compiled pattern
PathToRegexp(path, opts) ==
    [tokens |-> Parse(path, "", 0), strict |-> opts.strict = TRUE, end |-> opts.end]

\* the keys pathToRegexp pushes on this.paramNames
RECURSIVE KeyNames(_)
KeyNames(tokens) ==
    IF tokens = <<>> THEN <<>>
    ELSE IF IsKey(tokens[1]) THEN <<tokens[1].name>> \o KeyNames(Tail(tokens))
    ELSE KeyNames(Tail(tokens))

\* the number of leading characters of str that are not a delimiter
RECURSIVE RunLen(_)
RunLen(str) ==
    IF str = "" \/ Take(str, 1) \in {"/", "#", "?"} THEN 0 ELSE 1 + RunLen(Drop(str, 1))

NoMatch == [ok |-> FALSE, captures |-> <<>>]

\* whether the last token is a literal ending in a delimiter (or there is none)
EndDelimited(tokens) ==
    \/ tokens = <<>>
    \/ LET t == tokens[Len(tokens)]
       IN  ~IsKey(t) /\ SubSeq(t.lit, Len(t.lit), Len(t.lit)) \in {"/", "#", "?"}

\* how the compiled pattern ends: with end, the end of the string after an
\* optional delimiter (none when strict); without end, a position followed by
\* a delimiter or by the end of the string
ExecEnd(re, str) ==
    IF re.end THEN str = "" \/ (~re.strict /\ str = "/")
    ELSE EndDelimited(re.tokens) \/ str = "" \/ Take(str, 1) = "/"

\* regexp.exec(str) from the given tokens on: a capture per key, undefined
\* (def FALSE) for an optional key that took nothing. A (.*) key is the last
\* token of the patterns used here and takes the rest of the string.
RECURSIVE ExecFrom(_, _, _)
ExecFrom(re, tokens, str) ==
    IF tokens = <<>> THEN [ok |-> ExecEnd(re, str), captures |-> <<>>]
    ELSE LET t == tokens[1]
         IN  IF ~IsKey(t)
             THEN IF StartsWith(str, t.lit)
                  THEN ExecFrom(re, Tail(tokens), Drop(str, Len(t.lit)))
                  ELSE NoMatch
             ELSE LET s1   == Drop(str, Len(t.prefix))
                      n    == IF t.pattern = ".*" THEN Len(s1) ELSE RunLen(s1)
                      rest == ExecFrom(re, Tail(tokens), Drop(s1, n))
                      with == IF /\ StartsWith(str, t.prefix)
                                 /\ (t.pattern = "[^/]+?" => n > 0)
                                 /\ rest.ok
                              THEN [ok |-> TRUE,
                                    captures |-> <<[def |-> TRUE, value |-> Take(s1, n)]>>
                                                    \o rest.captures]
                              ELSE NoMatch
                      skip == ExecFrom(re, Tail(tokens), str)
                  IN  IF with.ok \/ ~t.optional THEN with
                      ELSE IF skip.ok
                      THEN [ok |-> TRUE,
                            captures |-> <<[def |-> FALSE, value |-> ""]>> \o skip.captures]
                      ELSE NoMatch

Exec(re, str) == ExecFrom(re, re.tokens, str)

\* layer.match(path): this.regexp.test(path)
LayerMatch(layer, path) == Exec(layer.regexp, path).ok

\* layer.captures(path): path.match(this.regexp).slice(1)
LayerCaptures(layer, path) ==
    IF layer.opts.ignoreCaptures THEN <<>> ELSE Exec(layer.regexp, path).captures

\* decodeURIComponent: the escapes of the requests used here; any other "%"
\* is malformed
Escapes == [e \in {"20", "2F"} |-> IF e = "20" THEN " " ELSE "/"]

Malformed(str) ==
    \E i \in 1..Len(str) :
       /\ SubSeq(str, i, i) = "%"
       /\ (i + 2 > Len(str) \/ SubSeq(str, i + 1, i + 2) \notin DOMAIN Escapes)

RECURSIVE Unescape(_)
Unescape(str) ==
    IF str = "" THEN ""
    ELSE IF Take(str, 1) = "%" THEN Escapes[SubSeq(str, 2, 3)] \o Unescape(Drop(str, 3))
    ELSE Take(str, 1) \o Unescape(Drop(str, 1))

\* try { decodeURIComponent(capture) } catch { capture }
Decode(capture) == IF Malformed(capture) THEN capture ELSE Unescape(capture)

\* params[name] = value on the object ctx.params, pairs in insertion order
ParamsSet(ps, name, value) ==
    IF \E i \in 1..Len(ps) : ps[i].name = name
    THEN [i \in 1..Len(ps) |-> IF ps[i].name = name THEN [name |-> name, value |-> value]
                                ELSE ps[i]]
    ELSE Append(ps, [name |-> name, value |-> value])

\* layer.params(path, captures, params): the first n captures merged in
RECURSIVE LayerParamsOverwriteEmpty(_, _, _, _)
LayerParamsOverwriteEmpty(names, captures, ps, n) ==
    IF n = 0 THEN ps
    ELSE LET before == LayerParamsOverwriteEmpty(names, captures, ps, n - 1)
         IN  IF n <= Len(names)
             THEN ParamsSet(before, names[n], Decode(captures[n].value))
             ELSE before

RECURSIVE LayerParams(_, _, _, _)
LayerParams(names, captures, ps, n) ==
    IF n = 0 THEN ps
    ELSE LET before == LayerParams(names, captures, ps, n - 1)
         IN  IF n <= Len(names) /\ captures[n].def /\ Len(captures[n].value) > 0
             THEN ParamsSet(before, names[n], Decode(captures[n].value))
             ELSE before

\* the Layer constructor's method list: each verb upper-cased and pushed, HEAD
\* put in front when the verb pushed is GET
RECURSIVE LayerMethods(_)
LayerMethods(verbs) ==
    IF verbs = <<>> THEN <<>>
    ELSE LET before == LayerMethods(SubSeq(verbs, 1, Len(verbs) - 1))
             pushed == Append(before, verbs[Len(verbs)])
         IN  IF verbs[Len(verbs)] = "GET" THEN <<"HEAD">> \o pushed ELSE pushed

\* new Layer(path, methods, middleware, opts); sid names the array object
\* `middleware`, which layers cloned from this one share
NewLayer(path, verbs, steps, sid, opts) ==
    [path |-> path, methods |-> LayerMethods(verbs), steps |-> steps, sid |-> sid,
     opts |-> opts, regexp |-> PathToRegexp(path, opts)]

\* this.paramNames, filled by pathToRegexp
ParamNames(layer) == KeyNames(layer.regexp.tokens)

\* methods.indexOf(method) !== -1
Includes(methods, method) == \E k \in 1..Len(methods) : methods[k] = method

\* Router.match(path, method): layers are named by their index in the stack
RECURSIVE MatchUpTo(_, _, _, _)
MatchUpTo(stk, n, path, method) ==
    IF n = 0 THEN [path |-> <<>>, pathAndMethod |-> <<>>, route |-> FALSE]
    ELSE LET m     == MatchUpTo(stk, n - 1, path, method)
             layer == stk[n]
         IN  IF ~LayerMatch(layer, path) THEN m
             ELSE IF Len(layer.methods) = 0 \/ Includes(layer.methods, method)
             THEN [path |-> Append(m.path, n),
                   pathAndMethod |-> Append(m.pathAndMethod, n),
                   route |-> m.route \/ Len(layer.methods) > 0]
             ELSE [m EXCEPT !.path = Append(@, n)]

MatchFlagAnyLayer(stk, path, method) ==
    LET m == MatchUpTo(stk, Len(stk), path, method)
    IN  [m EXCEPT !.route = m.pathAndMethod # <<>>]

Match(stk, path, method) == MatchUpTo(stk, Len(stk), path, method)

\* Router.matchHost(input); "" stands for an option or a header that is not set
MatchHost(host, input) ==
    IF host = "" THEN TRUE
    ELSE IF input = "" THEN FALSE
    ELSE input = host

\* the steps of one layer in the chain handed to compose(): the step that
\* records captures and params (k = 0), then the layer's own stack
LayerChain(stk, n) ==
    <<[layer |-> n, k |-> 0]>> \o [k \in 1..Len(stk[n].steps) |-> [layer |-> n, k |-> k]]

RECURSIVE ChainOf(_, _)
ChainOf(stk, layers) ==
    IF layers = <<>> THEN <<>>
    ELSE LayerChain(stk, layers[1]) \o ChainOf(stk, Tail(layers))

\* router.exclusive ? [mostSpecificLayer] : matchedLayers
ChosenAll(exclusive, layers) == layers

Chosen(exclusive, layers) ==
    IF exclusive THEN <<layers[Len(layers)]>> ELSE layers

\* this.methods of the Router: the implemented verbs
Implemented == <<"HEAD", "OPTIONS", "GET", "PUT", "PATCH", "POST", "DELETE">>

\* Object.keys(allowed): the methods of the layers in ctx.matched, each once,
\* in order of first insertion
RECURSIVE AllMethods(_, _)
AllMethods(stk, layers) ==
    IF layers = <<>> THEN <<>>
    ELSE stk[layers[1]].methods \o AllMethods(stk, Tail(layers))

RECURSIVE Keys(_)
Keys(ms) ==
    IF ms = <<>> THEN <<>>
    ELSE LET before == Keys(SubSeq(ms, 1, Len(ms) - 1))
         IN  IF Includes(before, ms[Len(ms)]) THEN before
             ELSE Append(before, ms[Len(ms)])

\* allowedArr.join(", ")
RECURSIVE Join(_)
Join(ms) ==
    IF ms = <<>> THEN ""
    ELSE IF Len(ms) = 1 THEN ms[1]
    ELSE ms[1] \o ", " \o Join(Tail(ms))

\* new HttpError.NotImplemented(), new HttpError.MethodNotAllowed()
NotImplemented ==
    [NewError("Not Implemented") EXCEPT !.status = Num(501), !.statusCode = Num(501)]

MethodNotAllowed ==
    [NewError("Method Not Allowed") EXCEPT !.status = Num(405), !.statusCode = Num(405),
                                            !.expose = TRUE]

\* the values the user-supplied factories return
CustomNotImplemented ==
    [NewError("Custom Not Implemented Error") EXCEPT !.statusCode = Num(501)]

CustomNotAllowed ==
    [NewError("Custom Not Allowed Error") EXCEPT !.statusCode = Num(405)]

\* reading ctx.matched.length while ctx.matched is undefined
MatchedUndefined ==
    NewError("Cannot read properties of undefined (reading 'length')")

\* the function allowedMethods() runs after next() resolved, on
\* T = [res, resp, raised, err]; T.err is what it throws (NullErr: nothing)
AllowedMethods(S, stk, mt, method, mode) ==
    LET T == [res |-> S.res, resp |-> S.resp, raised |-> S.raised, err |-> NullErr]
        W(S1) == [res |-> S1.res, resp |-> S1.resp, raised |-> S1.raised, err |-> NullErr]
    IN  IF ~(S.res.statusCode = 0 \/ S.res.statusCode = 404) THEN T
        ELSE IF ~mt.def THEN [T EXCEPT !.err = MatchedUndefined]
        ELSE LET allowedArr == Keys(AllMethods(stk, mt.layers))
             IN  IF ~Includes(Implemented, method)
                 THEN IF mode = "throw" THEN [T EXCEPT !.err = NotImplemented]
                      ELSE IF mode = "custom" THEN [T EXCEPT !.err = CustomNotImplemented]
                      ELSE W(Set(StatusAssign(S, Code(501)), "Allow", Join(allowedArr)))
                 ELSE IF Len(allowedArr) = 0 THEN T
                 ELSE IF method = "OPTIONS"
                 THEN W(Set(BodyAssign(StatusAssign(S, Code(200)), StrBody("")),
                            "Allow", Join(allowedArr)))
                 ELSE IF Includes(allowedArr, method) THEN T
                 ELSE IF mode = "throw" THEN [T EXCEPT !.err = MethodNotAllowed]
                 ELSE IF mode = "custom" THEN [T EXCEPT !.err = CustomNotAllowed]
                 ELSE W(Set(StatusAssign(S, Code(405)), "Allow", Join(allowedArr)))

\* layer.setPrefix(prefix)
SetPrefixAlways(layer, prefix) ==
    LET path == prefix \o layer.path
    IN  [layer EXCEPT !.path = path, !.regexp = PathToRegexp(path, layer.opts)]

SetPrefix(layer, prefix) ==
    IF layer.path = "" THEN layer
    ELSE LET path == IF layer.path # "/" \/ layer.opts.strict = TRUE
                     THEN prefix \o layer.path
                     ELSE prefix
         IN  [layer EXCEPT !.path = path, !.regexp = PathToRegexp(path, layer.opts)]

\* names.indexOf(name), 0 for -1
IndexOf(seq, x) ==
    IF \E i \in 1..Len(seq) : seq[i] = x
    THEN CHOOSE i \in 1..Len(seq) : seq[i] = x /\ \A j \in 1..(i - 1) : seq[j] # x
    ELSE 0

\* the middleware Layer.param builds around the handler of `param`, its
\* .param property and the test for it
ParamFn(param) == ":" \o param

IsParamFn(fn) == Take(fn, 1) = ":"

ParamOf(fn) == Drop(fn, 1)

\* Layer.param(param, fn): the layer's array after the call; the handler goes
\* before the first function that is no parameter handler or whose parameter
\* comes later in the path
LayerParam(names, steps, param) ==
    LET x     == IndexOf(names, param)
        stops == {i \in 1..Len(steps) :
                     ~IsParamFn(steps[i]) \/ IndexOf(names, ParamOf(steps[i])) > x}
    IN  IF x = 0 \/ stops = {} THEN steps
        ELSE LET i == CHOOSE k \in stops : \A l \in stops : k <= l
             IN  SubSeq(steps, 1, i - 1) \o <<ParamFn(param)>> \o SubSeq(steps, i, Len(steps))

\* the layers of both routers: W.p the dispatching router's, W.s the second's
World == [p |-> stack, s |-> sub.stack]

\* the array object sid, read through a layer that holds it
StepsOf(W, sid) ==
    LET all == W.p \o W.s
    IN  all[CHOOSE i \in 1..Len(all) : all[i].sid = sid].steps

\* the array object sid after a splice, seen through every layer that holds it
Aliased(stk, sid, steps) ==
    [i \in 1..Len(stk) |-> IF stk[i].sid = sid THEN [stk[i] EXCEPT !.steps = steps]
                           ELSE stk[i]]

\* for (route of this.stack) route.param(param, fn), over routes[1..n]
RECURSIVE ParamOver(_, _, _, _)
ParamOver(W, routes, n, param) ==
    IF n = 0 THEN W
    ELSE LET W1    == ParamOver(W, routes, n - 1, param)
             sid   == routes[n].sid
             steps == LayerParam(ParamNames(routes[n]), StepsOf(W1, sid), param)
         IN  [p |-> Aliased(W1.p, sid, steps), s |-> Aliased(W1.s, sid, steps)]

\* this.params[param] = fn on a table of names
TableSet(table, param) ==
    IF IndexOf(table, param) # 0 THEN table ELSE Append(table, param)

\* a number no array object has yet
FreshSid ==
    LET all == stack \o sub.stack
    IN  1 + Len(all)

\* the arguments of one call of router.get(path, ...fns), router.put(...),
\* router.use(fn)
Call(path, verbs, steps, end, ignoreCaptures) ==
    [path |-> path, verbs |-> verbs, steps |-> steps, end |-> end,
     ignoreCaptures |-> ignoreCaptures]

\* for (param of Object.keys(this.params)) route.param(param, ...), on the
\* array of the new route
RECURSIVE RouteParams(_, _, _, _)
RouteParams(names, steps, table, n) ==
    IF n = 0 THEN steps
    ELSE LayerParam(names, RouteParams(names, steps, table, n - 1), table[n])

\* Router.register(path, methods, middleware, opts) on the router r
RouterRegister(r, call, sid) ==
    LET route0 == NewLayer(call.path, call.verbs, call.steps, sid,
                           [end |-> call.end, strict |-> r.opts.strict,
                            ignoreCaptures |-> call.ignoreCaptures])
        route1 == IF r.opts.prefix # "" THEN SetPrefix(route0, r.opts.prefix) ELSE route0
        route2 == [route1 EXCEPT !.steps = RouteParams(ParamNames(route1), @, r.params,
                                                       Len(r.params))]
    IN  [r EXCEPT !.stack = Append(@, route2)]

\* the dispatching router as an object
Parent ==
    [stack |-> stack, params |-> rparams,
     opts |-> [prefix |-> ropts.prefix, strict |-> ropts.strict]]

\* the handlers registered on the layers:
\*   "stop": () => {}
\*   "next": (ctx, next) => next()
\*   "body": (ctx, next) => { ctx.body = {...}; return next() }
\* router.get(...), router.put(...), router.use(fn)
Catalogue ==
    {Call("/users", <<"GET">>, <<"stop">>, TRUE, FALSE),
     Call("/users", <<"PUT">>, <<"stop">>, TRUE, FALSE),
     Call("/users/:id(.*)", <<"GET">>, <<"body">>, TRUE, FALSE),
     Call("/users/all", <<"GET">>, <<"next", "body">>, TRUE, FALSE),
     Call("([^/]*)", <<>>, <<"body">>, FALSE, TRUE)}

RouterMethods == {"GET", "OPTIONS", "POST", "PROPFIND"}

RouterPaths == {"/users", "/users/all", "/bar"}

\* Router.register: stack.push(route)
Register(call) ==
    /\ rphase = "setup"
    /\ Len(stack) < MaxLayers
    /\ stack' = RouterRegister(Parent, call, FreshSid).stack
    /\ UNCHANGED <<ropts, target, matched, chain, pos, trace, nexts, rphase,
                   rparams, sub, params, composeVars, setupVars, reqVars, errVars, proxyVars>>

\* the middleware returned by routes(): dispatch(ctx, next)
RoutesDispatch ==
    /\ rphase = "setup"
    /\ IF ~MatchHost(ropts.host, target.host)
       THEN /\ nexts' = nexts + 1
            /\ rphase' = "downstream"
            /\ UNCHANGED <<matched, chain, pos>>
       ELSE LET m == Match(stack, target.path, req.method)
            IN  /\ matched' = [def |-> TRUE, layers |-> matched.layers \o m.path]
                /\ IF ~m.route
                   THEN /\ nexts' = nexts + 1
                        /\ rphase' = "downstream"
                        /\ UNCHANGED <<chain, pos>>
                   ELSE /\ chain' = ChainOf(stack, Chosen(ropts.exclusive, m.pathAndMethod))
                        /\ pos' = 1
                        /\ rphase' = "chain"
                        /\ UNCHANGED nexts
    /\ UNCHANGED <<stack, ropts, target, trace, rparams, sub, params,
                   composeVars, setupVars, reqVars, errVars, proxyVars>>

\* compose(layerChain)(ctx, next) runs the step at the cursor
ChainStep ==
    /\ rphase = "chain"
    /\ pos <= Len(chain)
    /\ LET c    == chain[pos]
           kind == IF c.k = 0 THEN "next" ELSE stack[c.layer].steps[c.k]
           S    == IF kind = "body" THEN BodyAssign(Here, ObjBody("{}")) ELSE Here
       IN  /\ trace' = Append(trace, c)
           /\ params' = IF c.k # 0 THEN params
                        ELSE LET captures == LayerCaptures(stack[c.layer], target.path)
                             IN  LayerParams(ParamNames(stack[c.layer]), captures, params,
                                             Len(captures))
           /\ res' = S.res
           /\ resp' = S.resp
           /\ raised' = S.raised
           /\ IF kind = "stop"
              THEN /\ rphase' = "resolved"
                   /\ phase' = "mw"
                   /\ UNCHANGED <<pos, nexts>>
              ELSE /\ pos' = pos + 1
                   /\ nexts' = IF pos = Len(chain) THEN nexts + 1 ELSE nexts
                   /\ rphase' = IF pos = Len(chain) THEN "downstream" ELSE rphase
                   /\ UNCHANGED phase
    /\ UNCHANGED <<stack, ropts, target, matched, chain, req, respond, ops,
                   rparams, sub, composeVars, setupVars, errVars, proxyVars>>

\* the middleware after routes(): allowedMethods(options), or the end of the
\* pipeline when it is not installed
Downstream ==
    /\ rphase = "downstream"
    /\ LET T == IF ropts.mode = "none"
                THEN [res |-> res, resp |-> resp, raised |-> raised, err |-> NullErr]
                ELSE AllowedMethods(Here, stack, matched, req.method, ropts.mode)
       IN  /\ res' = T.res
           /\ resp' = T.resp
           /\ raised' = T.raised
           /\ err' = T.err
           /\ phase' = IF T.err.nul THEN "mw" ELSE "failed"
    /\ rphase' = "resolved"
    /\ UNCHANGED <<stack, ropts, target, matched, chain, pos, trace, nexts,
                   rparams, sub, params, req, respond, ops, emitted,
                   composeVars, setupVars, proxyVars>>

RouterInit ==
    /\ ProxyIdle
    /\ ComposeIdle
    /\ SetupIdle
    /\ ErrIdle
    /\ req \in [method : RouterMethods, httpVersionMajor : {1}]
    /\ res = NewRes(TRUE)
    /\ resp = NewResp
    /\ respond = TRUE
    /\ raised = "none"
    /\ phase = "route"
    /\ ops = 0
    /\ stack = <<>>
    /\ ropts \in [exclusive : BOOLEAN, host : {"", "test.domain"},
                  mode : {"none", "set", "throw", "custom"}, prefix : {""},
                  strict : {FALSE}]
    /\ rparams = <<>>
    /\ sub = NewRouter
    /\ params = <<>>
    /\ target \in [path : RouterPaths, host : {"test.domain", "a.domain"}]
    /\ ropts.host = "" => target.host = "a.domain"
    /\ matched = [def |-> FALSE, layers |-> <<>>]
    /\ chain = <<>>
    /\ pos = 0
    /\ trace = <<>>
    /\ nexts = 0
    /\ rphase = "setup"

RouterNext ==
    \/ \E call \in Catalogue : Register(call)
    \/ RoutesDispatch
    \/ ChainStep
    \/ Downstream
    \/ Finalize
    \/ CatchOnError

SpecRouter == RouterInit /\ [][RouterNext]_vars

\* ------------------------------------------------------------------------
\* response.js (router part): use() with a router, prefix(), param()
\* ------------------------------------------------------------------------
\* subrouter.get(path, fn): Router.register on the second router
SubRegister(call) ==
    /\ rphase = "setup"
    /\ Len(sub.stack) < MaxSub
    /\ sub' = RouterRegister(sub, call, FreshSid)
    /\ UNCHANGED <<stack, ropts, target, matched, chain, pos, trace, nexts, rphase,
                   rparams, params, composeVars, setupVars, reqVars, errVars, proxyVars>>

\* router.param(param, fn) on the dispatching router: the table entry, then
\* route.param(param, fn) on every layer of its stack
Param(param) ==
    /\ rphase = "setup"
    /\ IndexOf(rparams, param) = 0
    /\ rparams' = TableSet(rparams, param)
    /\ LET W == ParamOver(World, stack, Len(stack), param)
       IN  /\ stack' = W.p
           /\ sub' = [sub EXCEPT !.stack = W.s]
    /\ UNCHANGED <<ropts, target, matched, chain, pos, trace, nexts, rphase,
                   params, composeVars, setupVars, reqVars, errVars, proxyVars>>

\* Object.create(Layer.prototype).clone(layer), prefixed with the path of
\* use() and with the prefix of the router
MountedAtRoot(layer, path, prefix) ==
    IF prefix # "" THEN SetPrefix(layer, prefix) ELSE layer

Mounted(layer, path, prefix) ==
    LET c1 == IF path # "" THEN SetPrefix(layer, path) ELSE layer
    IN  IF prefix # "" THEN SetPrefix(c1, prefix) ELSE c1

\* for (key of Object.keys(router.params)) cloneRouter.param(key, ...): the
\* layers after the first n keys
RECURSIVE UseParams(_, _, _, _)
UseParams(W, clones, table, n) ==
    IF n = 0 THEN W
    ELSE ParamOver(UseParams(W, clones, table, n - 1), clones, Len(clones), table[n])

\* the table cloneRouter.params, which is the object subrouter.params
RECURSIVE TableMerge(_, _, _)
TableMerge(table, keys, n) ==
    IF n = 0 THEN table ELSE TableSet(TableMerge(table, keys, n - 1), keys[n])

\* router.use(path, subrouter.routes())
RouterUse(path) ==
    /\ rphase = "setup"
    /\ Len(stack) + Len(sub.stack) <= MaxLayers
    /\ LET clones == [j \in 1..Len(sub.stack) |-> Mounted(sub.stack[j], path, ropts.prefix)]
           W      == UseParams([p |-> stack \o clones, s |-> sub.stack], clones, rparams,
                               Len(rparams))
       IN  /\ stack' = W.p
           /\ sub' = [sub EXCEPT !.stack = W.s,
                                 !.params = TableMerge(@, rparams, Len(rparams))]
    /\ UNCHANGED <<ropts, target, matched, chain, pos, trace, nexts, rphase,
                   rparams, params, composeVars, setupVars, reqVars, errVars, proxyVars>>

\* prefix.replace(/\/$/, '')
StripSlash(prefix) ==
    IF prefix # "" /\ SubSeq(prefix, Len(prefix), Len(prefix)) = "/"
    THEN Take(prefix, Len(prefix) - 1)
    ELSE prefix

\* router.prefix(prefix)
Prefix(prefix) ==
    /\ rphase = "setup"
    /\ ropts.prefix = ""
    /\ ropts' = [ropts EXCEPT !.prefix = StripSlash(prefix)]
    /\ stack' = [i \in 1..Len(stack) |-> SetPrefix(stack[i], StripSlash(prefix))]
    /\ UNCHANGED <<target, matched, chain, pos, trace, nexts, rphase,
                   rparams, sub, params, composeVars, setupVars, reqVars, errVars, proxyVars>>

\* router.get(path, (ctx, next) => next())
RouterGet(path) == Call(path, <<"GET">>, <<"next">>, TRUE, FALSE)

MountCatalogue == {RouterGet("/"), RouterGet("/:a/:b?"), RouterGet("/:b/:a?"), RouterGet("/x/:a(.*)")}

SubCatalogue == {RouterGet("/:a"), RouterGet("/")}

MountAt == {"/m", "/n"}

Prefixes == {"/p", "/p/"}

ParamKeys == {"a"}

MountPaths == {"/x", "/x/y", "/x/", "/x/%2F", "/%", "/p", "/p/", "/m/x", "/n/x", "/n",
     "/p/m/x"}

MountInit ==
    /\ ProxyIdle
    /\ ComposeIdle
    /\ SetupIdle
    /\ ErrIdle
    /\ req = [method |-> "GET", httpVersionMajor |-> 1]
    /\ res = NewRes(TRUE)
    /\ resp = NewResp
    /\ respond = TRUE
    /\ raised = "none"
    /\ phase = "route"
    /\ ops = 0
    /\ stack = <<>>
    /\ ropts \in [exclusive : {FALSE}, host : {""}, mode : {"none"}, prefix : {""},
                  strict : BOOLEAN]
    /\ target \in [path : MountPaths, host : {""}]
    /\ matched = [def |-> FALSE, layers |-> <<>>]
    /\ chain = <<>>
    /\ pos = 0
    /\ trace = <<>>
    /\ nexts = 0
    /\ rphase = "setup"
    /\ rparams = <<>>
    /\ sub = NewRouter
    /\ params = <<>>

MountNext ==
    \/ \E call \in MountCatalogue : Register(call)
    \/ \E call \in SubCatalogue : SubRegister(call)
    \/ \E param \in ParamKeys : Param(param)
    \/ \E path \in MountAt : RouterUse(path)
    \/ \E prefix \in Prefixes : Prefix(prefix)
    \/ RoutesDispatch
    \/ ChainStep
    \/ Downstream

SpecMount == MountInit /\ [][MountNext]_vars

\* ------------------------------------------------------------------------
\* Properties of the router
\* ------------------------------------------------------------------------
\* what Router.match returns for the request
Matched == Match(stack, target.path, req.method)

Increasing(s) == \A i, j \in 1..Len(s) : i < j => s[i] < s[j]

PathLayers == {i \in 1..Len(stack) : LayerMatch(stack[i], target.path)}

MethodLayers ==
    {i \in PathLayers : stack[i].methods = <<>> \/ Includes(stack[i].methods, req.method)}

\* the router middleware has handed over: to its next() or to the end of the chain
Dispatched == rphase \in {"downstream", "resolved"}

\* C17: Router.match lists, in registration order, every layer whose pattern
\* matches the path whatever the method, and among them those with no method
\* or with the request's method; its route flag says whether one of the latter
\* has a method. When the flag is false the router middleware runs no layer,
\* use()-registered ones included, and calls next() exactly once.
C17_MatchLists ==
    /\ Increasing(Matched.path)
    /\ Range(Matched.path) = PathLayers
    /\ \A method \in RouterMethods : Match(stack, target.path, method).path = Matched.path
    /\ Increasing(Matched.pathAndMethod)
    /\ Range(Matched.pathAndMethod) = MethodLayers
    /\ Matched.route <=> \E i \in MethodLayers : stack[i].methods # <<>>
    /\ (Dispatched /\ matched.def /\ ~Matched.route) => (trace = <<>> /\ nexts = 1)

C17_Witness ==
    /\ rphase = "resolved"
    /\ matched = [def |-> TRUE, layers |-> <<1, 2>>]
    /\ stack[1].methods = <<>>
    /\ Matched.pathAndMethod = <<1>>
    /\ ~Matched.route
    /\ trace = <<>>
    /\ nexts = 1

\* the handler a chain step runs; the step that records the params calls next()
KindOfStep(c) == IF c.k = 0 THEN "next" ELSE stack[c.layer].steps[c.k]

LastStepOf(c) == c.k = Len(stack[c.layer].steps)

\* d is the step that runs when step c calls next()
Follows(c, d) ==
    /\ KindOfStep(c) # "stop"
    /\ \/ d.layer = c.layer /\ d.k = c.k + 1
       \/ /\ LastStepOf(c)
          /\ d.k = 0
          /\ \E j \in 1..(Len(Matched.pathAndMethod) - 1) :
                Matched.pathAndMethod[j] = c.layer /\ Matched.pathAndMethod[j + 1] = d.layer

\* C18: the layers matching path and method run as nested middleware in
\* registration order, a layer's steps running only when the step before
\* called next(); the chain stops at the first step that does not call next(),
\* otherwise runs every matched layer and then the router's next(). With the
\* exclusive option only the steps of the last matching layer run.
C18_NestedInOrder ==
    (matched.def /\ Matched.route) =>
       LET ml   == Matched.pathAndMethod
           last == ml[Len(ml)]
       IN  /\ trace # <<>> =>
                trace[1] = [layer |-> IF ropts.exclusive THEN last ELSE ml[1], k |-> 0]
           /\ \A i \in 1..(Len(trace) - 1) : Follows(trace[i], trace[i + 1])
           /\ ropts.exclusive => \A i \in 1..Len(trace) : trace[i].layer = last
           /\ Dispatched =>
                /\ trace # <<>>
                /\ LET c == trace[Len(trace)]
                   IN  IF KindOfStep(c) = "stop" THEN nexts = 0
                       ELSE c.layer = last /\ LastStepOf(c) /\ nexts = 1

C18_Witness ==
    /\ rphase = "resolved"
    /\ ~ropts.exclusive
    /\ Matched.pathAndMethod = <<1, 2>>
    /\ stack[1].methods # <<>>
    /\ Len(trace) = 5
    /\ trace[1].layer = 1 /\ trace[5].layer = 2
    /\ nexts = 1

\* the union of the methods of the layers matching the path, in order
AllowUnion ==
    Keys(AllMethods(stack, [k \in 1..Cardinality(PathLayers) |->
                               CHOOSE i \in PathLayers :
                                  Cardinality({j \in PathLayers : j < i}) = k - 1]))

AllowIs(value) == "allow" \in DOMAIN res'.headers /\ res'.headers["allow"] = value

\* allowedMethods() runs with the status unset or 404
AllowedRuns == Downstream /\ res.statusCode = 404

\* C19: with allowedMethods() installed and the status unset or 404, a method
\* outside the method table gets 501; otherwise, when some layer matched the
\* path, OPTIONS gets 200, an empty body and Allow listing the union of the
\* matched layers' methods, and a method outside that union gets 405 with the
\* same Allow.
C19_Original ==
    [][(AllowedRuns /\ ropts.mode = "set") =>
          IF ~Includes(Implemented, req.method) THEN res'.statusCode = 501
          ELSE IF PathLayers = {} THEN TRUE
          ELSE IF req.method = "OPTIONS"
          THEN res'.statusCode = 200 /\ resp'.body = StrBody("") /\ AllowIs(Join(AllowUnion))
          ELSE ~Includes(AllowUnion, req.method)
                  => (res'.statusCode = 405 /\ AllowIs(Join(AllowUnion)))]_vars

\* C20: in throw mode the 501 case (method outside the method table) and the
\* 405 case (some matched layer has a method, none has the request's) reject
\* with NotImplemented / MethodNotAllowed or the factory's value, and leave
\* status and headers as they are.
C20_Original ==
    [][(AllowedRuns /\ ropts.mode \in {"throw", "custom"}) =>
          LET typed501 == IF ropts.mode = "throw" THEN NotImplemented
                          ELSE CustomNotImplemented
              typed405 == IF ropts.mode = "throw" THEN MethodNotAllowed
                          ELSE CustomNotAllowed
              rejects(e) == err' = e /\ phase' = "failed" /\ res' = res /\ resp' = resp
          IN  IF ~Includes(Implemented, req.method) THEN rejects(typed501)
              ELSE (AllowUnion # <<>> /\ req.method # "OPTIONS"
                    /\ ~Includes(AllowUnion, req.method)) => rejects(typed405)]_vars

\* ------------------------------------------------------------------------
\* Properties of params, of mounted routers and of prefixes
\* ------------------------------------------------------------------------
\* the positions of the trace where a layer recorded its captures
CaptureSteps == {i \in 1..Len(trace) : trace[i].k = 0}

\* the positions of the captures of `name` that the layer of step i took from
\* the request path and that are neither undefined nor empty
Taken(i, name) ==
    LET layer    == stack[trace[i].layer]
        captures == LayerCaptures(layer, target.path)
    IN  {n \in 1..Len(captures) :
            /\ n <= Len(ParamNames(layer))
            /\ ParamNames(layer)[n] = name
            /\ captures[n].def
            /\ captures[n].value # ""}

\* the value the layer of step i gives to `name`
Given(i, name) ==
    LET n == CHOOSE k \in Taken(i, name) : \A l \in Taken(i, name) : l <= k
    IN  Decode(LayerCaptures(stack[trace[i].layer], target.path)[n].value)

\* the steps that give a value to `name`
Givers(name) == {i \in CaptureSteps : Taken(i, name) # {}}

AllNames == UNION {Range(ParamNames(stack[i])) : i \in 1..Len(stack)}

\* C21: during dispatch ctx.params holds, for every parameter name, the
\* (URI-decoded) capture of the last layer run so far that captured a
\* non-empty value under that name, so a later layer overwrites an earlier
\* one; a name for which every layer run so far captured nothing or the empty
\* string is no key of ctx.params.
C21_ParamsMerged ==
    /\ \A i, j \in 1..Len(params) : params[i].name = params[j].name => i = j
    /\ \A i \in 1..Len(params) :
          /\ Givers(params[i].name) # {}
          /\ LET last == CHOOSE g \in Givers(params[i].name) :
                            \A h \in Givers(params[i].name) : h <= g
             IN  params[i].value = Given(last, params[i].name)
    /\ \A name \in AllNames :
          Givers(name) # {} => \E i \in 1..Len(params) : params[i].name = name

C21_Witness ==
    /\ rphase = "resolved"
    /\ \E name \in AllNames : \E g, h \in Givers(name) :
          /\ g < h
          /\ Given(g, name) # Given(h, name)
          /\ \E i \in 1..Len(params) :
                params[i].name = name /\ params[i].value = Given(h, name)

\* the layers of the dispatching router cloned from the layer j of the second
Clones(j) == {i \in 1..Len(stack) : stack[i].sid = sub.stack[j].sid}

\* request paths relative to a mount point
Suffixes == {"", "/", "/x", "/x/y"}

\* the layer i serves the mount point m as the layer j of the second router
\* serves its own paths, and serves no path below another mount point
Serves(i, j, m) ==
    /\ \A q \in Suffixes :
          LayerMatch(sub.stack[j], q) => LayerMatch(stack[i], ropts.prefix \o m \o q)
    /\ \A q \in Suffixes : \A o \in MountAt \ {m} :
          ~LayerMatch(stack[i], ropts.prefix \o o \o q)

\* the mount points the request path lies below
Below == {m \in MountAt : StartsWith(target.path, ropts.prefix \o m)}

\* C22: each layer mounted from the second router serves one mount point, there
\* matching prefix + mount path + the paths the original matches and nothing
\* below the other mount point; a request below one mount point runs no layer
\* mounted at the other; use() leaves path and pattern of the second router's
\* own layers as they were.
C22_MountsIndependent ==
    /\ [](\A j \in 1..Len(sub.stack) : \A i \in Clones(j) :
             /\ \E m \in MountAt : Serves(i, j, m)
             /\ \A k \in 1..Len(trace) :
                   trace[k].layer = i => \E m \in Below : Serves(i, j, m))
    /\ [][(\E m \in MountAt : RouterUse(m)) =>
             /\ Len(sub'.stack) = Len(sub.stack)
             /\ \A j \in 1..Len(sub.stack) :
                   /\ sub'.stack[j].path = sub.stack[j].path
                   /\ sub'.stack[j].regexp = sub.stack[j].regexp
             /\ \A i \in 1..Len(stack) :
                   /\ stack'[i].path = stack[i].path
                   /\ stack'[i].regexp = stack[i].regexp]_vars

C22_Witness ==
    /\ rphase = "resolved"
    /\ Len(sub.stack) = 1
    /\ Clones(1) = {1, 2}
    /\ Serves(1, 1, "/m") /\ Serves(2, 1, "/n")
    /\ target.path = "/n/x"
    /\ {trace[k].layer : k \in 1..Len(trace)} = {2}

\* the function the trace step k ran, for the steps of a layer's own array
RanFn(k) == stack[trace[k].layer].steps[trace[k].k]

\* a function of one layer ran twice for the request
RanTwice ==
    \E k, l \in 1..Len(trace) :
       /\ k < l
       /\ trace[k].k > 0 /\ trace[l].k > 0
       /\ trace[k].layer = trace[l].layer
       /\ IsParamFn(RanFn(k))
       /\ RanFn(k) = RanFn(l)

\* C23: whatever routers were mounted, one request runs no parameter handler
\* (and no middleware) of a matched layer more than once, and use() leaves the
\* middleware arrays of the second router's layers and its parameter table as
\* they were.
C23_Original ==
    /\ [](~RanTwice)
    /\ [][(\E m \in MountAt : RouterUse(m)) =>
             /\ sub'.params = sub.params
             /\ \A j \in 1..Len(sub.stack) : sub'.stack[j].steps = sub.stack[j].steps]_vars

\* the prefix written without its trailing slash
Bare(prefix) ==
    IF SubSeq(prefix, Len(prefix), Len(prefix)) = "/"
    THEN SubSeq(prefix, 1, Len(prefix) - 1)
    ELSE prefix

\* what a layer must look like once the prefix P (bare) is on it: a root
\* layer is P itself and matches P and P/ when not strict, is P/ and matches
\* only P/ when strict; any other layer is P followed by its path
Prefixed(before, after, P) ==
    IF before.path # "/" THEN after.path = P \o before.path
    ELSE IF before.opts.strict
    THEN /\ after.path = P \o "/"
         /\ LayerMatch(after, P \o "/")
         /\ ~LayerMatch(after, P)
         /\ ~LayerMatch(after, P \o "//")
    ELSE /\ after.path = P
         /\ LayerMatch(after, P)
         /\ LayerMatch(after, P \o "/")

\* C24: router.prefix(P) puts the same patterns on the layers whether P ends
\* in a slash or not; a layer registered at "/" becomes P (no double slash)
\* and matches P and P/ when not strict, becomes P/ and matches only that when
\* strict. Layers registered after prefix() get the same treatment.
C24_PrefixRoot ==
    /\ [][\A prefix \in Prefixes :
             Prefix(prefix) =>
                /\ Len(stack') = Len(stack)
                /\ \A i \in 1..Len(stack) : Prefixed(stack[i], stack'[i], Bare(prefix))]_vars
    /\ [][(Register(RouterGet("/")) /\ ropts.prefix # "") =>
             LET new == stack'[Len(stack')]
             IN  Prefixed([path |-> "/", opts |-> new.opts], new, ropts.prefix)]_vars

C24_Witness ==
    /\ rphase = "resolved"
    /\ ropts.prefix = "/p"
    /\ ~ropts.strict
    /\ Len(stack) = 1
    /\ stack[1].path = "/p"
    /\ target.path = "/p/"
    /\ trace = <<[layer |-> 1, k |-> 0], [layer |-> 1, k |-> 1]>>


\* ------------------------------------------------------------------------
\* The proxy: the outgoing passes (web.out.js) and shared.js
\* ------------------------------------------------------------------------
\* a header value (absent is <<>>) that JavaScript takes for true
HasValue(h) == h # <<>> /\ h[1] # ""

\* an object of headers: the entries [key, value, array] in insertion order
HeaderAt(hs, key) ==
    IF \E i \in 1..Len(hs) : hs[i].key = key
    THEN CHOOSE i \in 1..Len(hs) : hs[i].key = key
    ELSE 0

\* headers[key]
HeaderOf(hs, key) == IF HeaderAt(hs, key) = 0 THEN <<>> ELSE hs[HeaderAt(hs, key)].value

\* headers[key] = value
PutHeader(hs, key, value) ==
    IF HeaderAt(hs, key) = 0
    THEN Append(hs, [key |-> key, value |-> value, array |-> FALSE])
    ELSE [hs EXCEPT ![HeaderAt(hs, key)] = [key |-> key, value |-> value, array |-> FALSE]]

\* delete headers[key]
DeleteHeader(hs, key) == SelectSeq(hs, LAMBDA h : h.key # key)

\* res.setHeader(name, value): names are the same whatever their case
ResSetHeader(hs, entry) ==
    IF \E i \in 1..Len(hs) : Lower(hs[i].key) = Lower(entry.key)
    THEN LET i == CHOOSE i \in 1..Len(hs) : Lower(hs[i].key) = Lower(entry.key)
         IN  [hs EXCEPT ![i] = entry]
    ELSE Append(hs, entry)

\* String.prototype.trim
RECURSIVE Trim(_)
Trim(str) ==
    IF str = "" THEN ""
    ELSE IF Take(str, 1) = " " THEN Trim(Drop(str, 1))
    ELSE IF SubSeq(str, Len(str), Len(str)) = " " THEN Trim(Take(str, Len(str) - 1))
    ELSE str

\* redirectRegex = /^201|30([1278])$/ tested on the status code as a string:
\* it begins with 201, or it ends with 301, 302, 307 or 308
redirectRegex(statusCode) ==
    LET str == ToString(statusCode)
    IN  \/ Len(str) >= 3 /\ Take(str, 3) = "201"
        \/ Len(str) >= 3 /\ SubSeq(str, Len(str) - 2, Len(str)) \in {"301", "302", "307", "308"}

\* a character of a URL's protocol
IsProtocolChar(c) == c \notin {":", "/", "?", "#", "@", " ", ""}

\* the length of the protocol of str with its colon, 0 if str has none
RECURSIVE ProtocolLen(_, _)
ProtocolLen(str, n) ==
    IF n > Len(str) THEN 0
    ELSE IF SubSeq(str, n, n) = ":" THEN (IF n = 1 THEN 0 ELSE n)
    ELSE IF IsProtocolChar(SubSeq(str, n, n)) THEN ProtocolLen(str, n + 1)
    ELSE 0

\* the length of the host at the head of str: up to the first /, ? or #
RECURSIVE HostLen(_)
HostLen(str) ==
    IF str = "" \/ Take(str, 1) \in {"/", "?", "#"} THEN 0 ELSE 1 + HostLen(Drop(str, 1))

\* url.parse(str): protocol and host are lower-cased, an http(s) URL without a
\* path gets the path "/"; host "" stands for null
parse(str) ==
    LET plen     == ProtocolLen(str, 1)
        protocol == Lower(Take(str, plen))
        rest     == Drop(str, plen)
        slashes  == Len(rest) >= 2 /\ Take(rest, 2) = "//"
        after    == IF slashes THEN Drop(rest, 2) ELSE rest
        hlen     == IF slashes THEN HostLen(after) ELSE 0
        host     == Lower(Take(after, hlen))
        path     == Drop(after, hlen)
    IN  [protocol |-> protocol, slashes |-> slashes, host |-> host, hostname |-> host,
         path |-> IF path = "" /\ slashes /\ protocol \in {"http:", "https:"}
                  THEN "/" ELSE path]

\* Url.prototype.format: the protocol gets its colon, the host is url.host or,
\* when that is not set, what was parsed
format(url) ==
    LET protocol == IF url.protocol # "" /\ SubSeq(url.protocol, Len(url.protocol),
                                                    Len(url.protocol)) # ":"
                    THEN url.protocol \o ":" ELSE url.protocol
        host     == IF url.host # "" THEN url.host ELSE url.hostname
    IN  protocol \o (IF url.slashes THEN "//" \o host ELSE host) \o url.path

\* If is a HTTP 1.0 request, remove chunk headers
removeChunked(O) ==
    IF O.req.httpVersion = "1.0"
    THEN [O EXCEPT !.proxyRes.headers = DeleteHeader(@, "transfer-encoding")]
    ELSE O

setConnection(O) ==
    IF O.req.httpVersion = "1.0"
    THEN [O EXCEPT !.proxyRes.headers =
             PutHeader(@, "connection", IF HasValue(O.req.headers.connection)
                                        THEN O.req.headers.connection ELSE <<"close">>)]
    ELSE IF O.req.httpVersion # "2.0" /\ ~HasValue(HeaderOf(O.proxyRes.headers, "connection"))
    THEN [O EXCEPT !.proxyRes.headers =
             PutHeader(@, "connection", IF HasValue(O.req.headers.connection)
                                        THEN O.req.headers.connection ELSE <<"keep-alive">>)]
    ELSE O

RewrittenHostKeepsTarget(url, O, options) == url

\* url.host = options.hostRewrite, else req.headers["host"] (which may be absent)
RewrittenHost(url, O, options) ==
    IF options.hostRewrite # "" THEN [url EXCEPT !.host = options.hostRewrite]
    ELSE IF options.autoRewrite
    THEN [url EXCEPT !.host = IF O.req.headers.host = <<>> THEN ""
                              ELSE O.req.headers.host[1]]
    ELSE url

setRedirectHostRewrite(O, options) ==
    LET location == HeaderOf(O.proxyRes.headers, "location")
    IN  IF /\ (options.hostRewrite # "" \/ options.autoRewrite
                 \/ options.protocolRewrite # "")
           /\ HasValue(location)
           /\ redirectRegex(O.proxyRes.statusCode)
        THEN LET against == parse(options.target)
                 url    == parse(location[1])
                 hosted == RewrittenHost(url, O, options)
                 moved  == IF options.protocolRewrite # ""
                           THEN [hosted EXCEPT !.protocol = options.protocolRewrite]
                           ELSE hosted
             IN  IF against.host # url.host THEN O
                 ELSE [O EXCEPT !.proxyRes.headers =
                          PutHeader(@, "location", <<format(moved)>>)]
        ELSE O

\* whether str, from position i on, reads "name=" whatever the case
ReadsProperty(str, i, property) ==
    /\ i + Len(property) <= Len(str)
    /\ Lower(SubSeq(str, i, i + Len(property))) = Lower(property) \o "="

\* the number of white-space characters of str from position i on
RECURSIVE Blanks(_, _)
Blanks(str, i) ==
    IF i <= Len(str) /\ SubSeq(str, i, i) \in {" ", "\t"} THEN 1 + Blanks(str, i + 1) ELSE 0

\* the number of characters other than ";" of str from position i on
RECURSIVE ValueLen(_, _)
ValueLen(str, i) ==
    IF i <= Len(str) /\ SubSeq(str, i, i) # ";" THEN 1 + ValueLen(str, i + 1) ELSE 0

\* where new RegExp("(;\\s*" + property + "=)([^;]+)", "i") matches at position i:
\* the first position of the value, 0 if it does not match there
MatchAt(str, i, property) ==
    LET j == i + 1 + Blanks(str, i + 1)
        v == j + Len(property) + 1
    IN  IF /\ SubSeq(str, i, i) = ";"
           /\ ReadsProperty(str, j, property)
           /\ ValueLen(str, v) >= 1
        THEN v ELSE 0

\* the first position at which the expression matches, 0 if there is none
FirstMatch(str, property) ==
    IF \E i \in 1..Len(str) : MatchAt(str, i, property) # 0
    THEN CHOOSE i \in 1..Len(str) :
            /\ MatchAt(str, i, property) # 0
            /\ \A k \in 1..(i - 1) : MatchAt(str, k, property) = 0
    ELSE 0

\* the methods an object literal inherits from Object.prototype
Inherited ==
    {"constructor", "hasOwnProperty", "isPrototypeOf", "propertyIsEnumerable",
     "toLocaleString", "toString", "valueOf"}

\* an inherited method joined to a string
Native(key) ==
    "function " \o (IF key = "constructor" THEN "Object" ELSE key) \o "() { [native code] }"

\* key in config: an entry of the object, or a member it inherits
InConfig(key, config) ==
    \/ \E n \in 1..Len(config) : config[n].key = key
    \/ key \in Inherited

\* config[key]: the entry of the object before the inherited member
ConfigOf(key, config) ==
    IF \E n \in 1..Len(config) : config[n].key = key
    THEN config[CHOOSE n \in 1..Len(config) : config[n].key = key].value
    ELSE Native(key)

\* the replacement callback: the value of the entry of previousValue, else of
\* "*", else the match as it is; an empty new value removes the whole match
Replacement(match, prefix, previousValue, config) ==
    IF InConfig(previousValue, config)
    THEN (IF ConfigOf(previousValue, config) # ""
          THEN prefix \o ConfigOf(previousValue, config) ELSE "")
    ELSE IF InConfig("*", config)
    THEN (IF ConfigOf("*", config) # "" THEN prefix \o ConfigOf("*", config) ELSE "")
    ELSE match

\* header.replace(regexp, callback) on one cookie: the first match only
ReplaceProperty(str, config, property) ==
    LET i == FirstMatch(str, property)
        v == MatchAt(str, i, property)
        e == v + ValueLen(str, v)
    IN  IF i = 0 THEN str
        ELSE Take(str, i - 1)
             \o Replacement(SubSeq(str, i, e - 1), SubSeq(str, i, v - 1),
                            SubSeq(str, v, e - 1), config)
             \o Drop(str, e - 1)

\* shared.rewriteCookieProperty: every element of an array, or the one string
rewriteCookieProperty(header, config, property) ==
    [n \in 1..Len(header) |-> ReplaceProperty(header[n], config, property)]

\* if (typeof config === "string") config = { "*": config }
ConfigObject(config) ==
    IF config.kind = "string" THEN <<[key |-> "*", value |-> config.str]>>
    ELSE config.map

\* rewriteCookieDomainConfig && ...: an object is true, so is a string once
\* it has been made an object; an option that is not set is not
ConfigSet(config) == config.kind # "none"

\* the key as the raw headers spell it, when preserveHeaderKeyCase is set:
\* rawHeaderKeyMap[key] || key, the map filled from the even positions
RawKey(rawHeaders, key) ==
    LET at == {i \in 1..Len(rawHeaders) : i % 2 = 1 /\ Lower(rawHeaders[i]) = key}
    IN  IF at = {} THEN key
        ELSE LET last == CHOOSE i \in at : \A k \in at : k <= i
             IN  IF rawHeaders[last] = "" THEN key ELSE rawHeaders[last]

\* setHeader(key, header) of writeHeaders
setHeader(hs, entry, options) ==
    LET isCookie == Lower(entry.key) = "set-cookie"
        domained == IF ConfigSet(options.cookieDomainRewrite) /\ isCookie
                    THEN rewriteCookieProperty(entry.value,
                             ConfigObject(options.cookieDomainRewrite), "domain")
                    ELSE entry.value
        pathed   == IF ConfigSet(options.cookiePathRewrite) /\ isCookie
                    THEN rewriteCookieProperty(domained,
                             ConfigObject(options.cookiePathRewrite), "path")
                    ELSE domained
    IN  ResSetHeader(hs, [entry EXCEPT !.key = Trim(entry.key), !.value = pathed])

\* Object.keys(proxyRes.headers).forEach(...), over the entries 1..n
RECURSIVE WriteEach(_, _, _, _)
WriteEach(hs, proxyRes, n, options) ==
    IF n = 0 THEN hs
    ELSE LET entry == proxyRes.headers[n]
             key   == IF options.preserveHeaderKeyCase
                      THEN RawKey(proxyRes.rawHeaders, entry.key) ELSE entry.key
         IN  setHeader(WriteEach(hs, proxyRes, n - 1, options),
                       [entry EXCEPT !.key = key], options)

writeHeaders(O, options) ==
    [O EXCEPT !.res.headers = WriteEach(@, O.proxyRes, Len(O.proxyRes.headers), options)]

writeStatusCode(O) ==
    IF O.proxyRes.statusMessage # ""
    THEN [O EXCEPT !.res.statusCode = O.proxyRes.statusCode,
                   !.res.statusMessage = O.proxyRes.statusMessage]
    ELSE [O EXCEPT !.res.statusCode = O.proxyRes.statusCode]

StopsNever(r) == FALSE

\* if (pass(...)) break: a pass that returns a true value ends the loop
Stops(r) == r.ret

\* outgoing = Object.keys(outgoing).map(pass => outgoing[pass])
outgoing ==
    <<"removeChunked", "setConnection", "setRedirectHostRewrite", "writeHeaders",
      "writeStatusCode">>

\* outgoing[i](req, res, proxyRes, options): none of the passes returns a value
OutgoingPass(name, O, options) ==
    CASE name = "removeChunked" -> [O |-> removeChunked(O), ret |-> FALSE]
      [] name = "setConnection" -> [O |-> setConnection(O), ret |-> FALSE]
      [] name = "setRedirectHostRewrite" ->
            [O |-> setRedirectHostRewrite(O, options), ret |-> FALSE]
      [] name = "writeHeaders" -> [O |-> writeHeaders(O, options), ret |-> FALSE]
      [] name = "writeStatusCode" -> [O |-> writeStatusCode(O), ret |-> FALSE]

\* for (i...) if (outgoing[i](req, res, proxyRes, options)) break;
RECURSIVE RunOutgoing(_, _, _, _)
RunOutgoing(list, i, O, options) ==
    IF i > Len(list) THEN O
    ELSE LET r == OutgoingPass(list[i],
                      [O EXCEPT !.log = Append(@, [kind |-> "out", name |-> list[i],
                                                    err |-> 0])], options)
         IN  IF Stops(r) THEN r.O ELSE RunOutgoing(list, i + 1, r.O, options)

\* ------------------------------------------------------------------------
\* The proxy: the incoming passes (web.in.js, ws.in.js) and the pass loop
\* (index.js)
\* ------------------------------------------------------------------------
\* most passes added with before() and after()
MaxCustom == 1

\* the entries of the log: a pass that was called, an event emitted on the
\* proxy, the user callback called, an "error" event observed on a stream
LogPass(name) == [kind |-> "pass", name |-> name, err |-> 0]

LogEmit(name, id) == [kind |-> "emit", name |-> name, err |-> id]

LogClb(url, id) == [kind |-> "clb", name |-> url, err |-> id]

LogSeen(emitter, id) == [kind |-> "observed", name |-> emitter, err |-> id]

LogThrow(name) == [kind |-> "throw", name |-> name, err |-> 0]

\* a call made on a socket or of a library function
LogCall(name) == [kind |-> "call", name |-> name, err |-> 0]

\* what the passes of one call work on
ProxyState ==
    [req |-> preq, res |-> pres, proxyReq |-> proxyReq, forwardReq |-> forwardReq,
     log |-> plog]

IsDigit(c) == c \in {"0", "1", "2", "3", "4", "5", "6", "7", "8", "9"}

RECURSIVE Digits(_)
Digits(str) ==
    IF str = "" \/ ~IsDigit(Take(str, 1)) THEN "" ELSE Take(str, 1) \o Digits(Drop(str, 1))

hasEncryptedConnection(request) == request.encrypted

\* req.headers.host.match(/:(\d+)/), else the port of the connection type
getPort(request) ==
    LET host == IF HasValue(request.headers.host) THEN request.headers.host[1] ELSE ""
        at   == {i \in 1..Len(host) :
                    SubSeq(host, i, i) = ":" /\ Digits(Drop(host, i)) # ""}
    IN  IF at # {} THEN Digits(Drop(host, CHOOSE i \in at : \A k \in at : i <= k))
        ELSE IF hasEncryptedConnection(request) THEN "443" ELSE "80"

\* req.connection.remoteAddress
RemoteAddress == "10.0.0.7"

\* (old || '') + (old ? ',' : '') + value
Forwarded(old, value) == IF HasValue(old) THEN <<old[1] \o "," \o value>> ELSE <<value>>

deleteLength(S) ==
    IF S.req.method \in {"DELETE", "OPTIONS"} /\ ~HasValue(S.req.headers.contentLength)
    THEN [S EXCEPT !.req.headers.contentLength = <<"0">>,
                   !.req.headers.transferEncoding = <<>>]
    ELSE S

timeout(S, options) ==
    IF options.timeout THEN [S EXCEPT !.req.socketTimeout = TRUE] ELSE S

XHeaders(S, options) ==
    IF ~options.xfwd THEN S
    ELSE [S EXCEPT
            !.req.headers.xfFor = Forwarded(@, RemoteAddress),
            !.req.headers.xfPort = Forwarded(@, getPort(S.req)),
            !.req.headers.xfProto =
                Forwarded(@, IF hasEncryptedConnection(S.req) THEN "https" ELSE "http"),
            !.req.headers.xfHost =
                IF HasValue(@) THEN @
                ELSE IF HasValue(S.req.headers.host) THEN S.req.headers.host ELSE <<"">>]

\* stream of web.in.js, as far as it runs inside the call: the "start" event,
\* the request to options.forward and its error handler on req, res.end()
\* when there is no target, else the request to options.target, the "close"
\* listener on res and the error handler on req
stream(S, options) ==
    LET started   == [S EXCEPT !.log = Append(@, LogEmit("start", 0))]
        forwarded == IF options.forward = "" THEN started
                     ELSE [started EXCEPT !.forwardReq = "open",
                                          !.req.onError = Append(@, "forwardError")]
    IN  IF options.forward # "" /\ options.target = ""
        THEN [forwarded EXCEPT !.res.finished = TRUE, !.res.headersSent = TRUE]
        ELSE [forwarded EXCEPT !.proxyReq = "open", !.res.onClose = TRUE,
                               !.req.onError = Append(@, "proxyError")]

\* checkMethodAndHeader of ws.in.js
CheckUpgradeOnly(S) ==
    IF ~HasValue(S.req.headers.upgrade) \/ Lower(S.req.headers.upgrade[1]) # "websocket"
    THEN [S |-> [S EXCEPT !.res.destroyed = TRUE], ret |-> TRUE]
    ELSE [S |-> S, ret |-> FALSE]

checkMethodAndHeader(S) ==
    IF S.req.method # "GET" \/ ~HasValue(S.req.headers.upgrade)
    THEN [S |-> [S EXCEPT !.res.destroyed = TRUE], ret |-> TRUE]
    ELSE IF Lower(S.req.headers.upgrade[1]) # "websocket"
    THEN [S |-> [S EXCEPT !.res.destroyed = TRUE], ret |-> TRUE]
    ELSE [S |-> S, ret |-> FALSE]

\* XHeaders of ws.in.js
WsXHeaders(S, options) ==
    IF ~options.xfwd THEN S
    ELSE [S EXCEPT
            !.req.headers.xfFor = Forwarded(@, RemoteAddress),
            !.req.headers.xfPort = Forwarded(@, getPort(S.req)),
            !.req.headers.xfProto =
                Forwarded(@, IF hasEncryptedConnection(S.req) THEN "wss" ELSE "ws")]

\* stream of ws.in.js, as far as it runs inside the call: without a target
\* options.target.protocol throws, else the request is made and ended, and
\* the ClientRequest that proxyReq.end() returns is the return value
WsStream(S, options) ==
    LET setup == [S EXCEPT !.log = Append(@, LogCall("setupSocket(socket)"))]
        ready == IF S.req.head
                 THEN [setup EXCEPT !.log = Append(@, LogCall("socket.unshift(head)"))]
                 ELSE setup
    IN  IF options.target = ""
        THEN [S |-> [ready EXCEPT !.log = Append(@, LogThrow("TypeError"))], ret |-> TRUE]
        ELSE [S |-> [ready EXCEPT !.proxyReq = "open",
                                  !.log = @ \o <<LogCall("request"),
                                                 LogEmit("proxyReqWs", 0)>>],
              ret |-> TRUE]

\* a pass added by the application: "handled" ends the response and returns
\* true, "noop" returns nothing
CustomPass(name, S) ==
    IF name = "handled"
    THEN [S |-> [S EXCEPT !.res.finished = TRUE, !.res.headersSent = TRUE], ret |-> TRUE]
    ELSE [S |-> S, ret |-> FALSE]

\* passes[i](req, res, requestOptions, head, this, cbl)
Pass(type, name, S, options) ==
    CASE name \in {"handled", "noop"} -> CustomPass(name, S)
      [] type = "web" /\ name = "deleteLength" -> [S |-> deleteLength(S), ret |-> FALSE]
      [] type = "web" /\ name = "timeout" -> [S |-> timeout(S, options), ret |-> FALSE]
      [] type = "web" /\ name = "XHeaders" -> [S |-> XHeaders(S, options), ret |-> FALSE]
      [] type = "web" /\ name = "stream" -> [S |-> stream(S, options), ret |-> FALSE]
      [] type = "ws" /\ name = "checkMethodAndHeader" -> checkMethodAndHeader(S)
      [] type = "ws" /\ name = "XHeaders" -> [S |-> WsXHeaders(S, options), ret |-> FALSE]
      [] type = "ws" /\ name = "stream" -> WsStream(S, options)

\* for (i...) if (passes[i](...)) break;
RECURSIVE RunPasses(_, _, _, _, _)
RunPasses(type, list, i, S, options) ==
    IF i > Len(list) THEN S
    ELSE LET r == Pass(type, list[i], [S EXCEPT !.log = Append(@, LogPass(list[i]))],
                       options)
         IN  IF Stops(r) THEN r.S ELSE RunPasses(type, list, i + 1, r.S, options)

\* the function createRightProxy(type)(options) returns, called with a request
createRightProxy(type, list, S, options) ==
    IF options.target = "" /\ options.forward = ""
    THEN [S EXCEPT !.log = Append(@, LogEmit("error", 0))]
    ELSE RunPasses(type, list, 1, S, options)

\* the index of the last pass with that name, 0 for i === false
PassIndex(list, passName) ==
    LET at == {i \in 1..Len(list) : list[i] = passName}
    IN  IF at = {} THEN 0 ELSE CHOOSE i \in at : \A k \in at : k <= i

\* passes.splice(i, 0, callback): the callback comes to stand before the pass
before(list, passName, callback) ==
    LET i == PassIndex(list, passName)
    IN  SubSeq(list, 1, i - 1) \o <<callback>> \o SubSeq(list, i, Len(list))

\* passes.splice(i++, 0, callback): i is incremented after it was used
after(list, passName, callback) ==
    LET i == PassIndex(list, passName)
    IN  SubSeq(list, 1, i - 1) \o <<callback>> \o SubSeq(list, i, Len(list))

Customs(list) == Len(SelectSeq(list, LAMBDA p : p \in {"handled", "noop"}))

\* what before() and after() throw (the message without its quotation marks),
\* "none" when they return
PassError(type, passName) ==
    IF type \notin {"web", "ws"} THEN "Error: type must be web or ws"
    ELSE IF PassIndex(passes[type], passName) = 0 THEN "Error: No such pass"
    ELSE "none"

\* proxy.before(type, passName, callback) or proxy.after(type, passName,
\* callback) ahead of the request; a type other than "web" and "ws" and a
\* passName that no pass has throw
AddPass(op, type, passName, callback) ==
    /\ preq.kind = "none"
    /\ thrown = "none"
    /\ Customs(passes.web) + Customs(passes.ws) < MaxCustom
    /\ thrown' = PassError(type, passName)
    /\ passes' = IF PassError(type, passName) # "none" THEN passes
                 ELSE [passes EXCEPT ![type] = IF op = "before"
                                               THEN before(@, passName, callback)
                                               ELSE after(@, passName, callback)]
    /\ UNCHANGED <<popts, preq, pres, proxyReq, forwardReq, plog, relay, proxySocket,
                   resolved, appMw, composed, serving, composeVars, reqVars, errVars,
                   routerVars>>

\* proxy.web(req, res[, clb]) and proxy.ws(req, socket[, clb])
ProxyCall(type, request, clb) ==
    /\ preq.kind = "none"
    /\ plog = <<>>
    /\ LET options == [popts EXCEPT !.clb = clb]
           S == createRightProxy(type, passes[type],
                    [ProxyState EXCEPT !.req = [request EXCEPT !.kind = type]], options)
       IN  /\ popts' = options
           /\ preq' = S.req
           /\ pres' = S.res
           /\ proxyReq' = S.proxyReq
           /\ forwardReq' = S.forwardReq
           /\ plog' = S.log
    /\ UNCHANGED <<passes, relay, proxySocket, resolved, composeVars, setupVars, reqVars,
                   errVars, routerVars>>

\* request.destroy(), request.abort(): a request in flight is torn down
Destroy(state) == IF state \in {"open", "responding"} THEN "destroyed" ELSE state

\* pipeline(req, request): when req fails or closes before its end the
\* requests it is piped into are destroyed
PipelineBroken(S) ==
    IF S.req.ended THEN S
    ELSE [S EXCEPT !.proxyReq = Destroy(@), !.forwardReq = Destroy(@)]

\* the number of the next error event
NextErr == 1 + Len(SelectSeq(plog, LAMBDA e : e.kind = "observed"))

\* whether that stream has emitted "error" already
Errored(log, emitter) == \E n \in 1..Len(log) : log[n] = LogSeen(emitter, log[n].err)

\* the function createErrorHandler(proxyReq, url) returns, called with err
createErrorHandler(S, handler, code, id, options) ==
    LET url == IF handler = "forwardError" THEN "forward" ELSE "target"
    IN  IF S.req.socketDestroyed /\ code = "ECONNRESET"
        THEN IF handler = "forwardError"
             THEN [S EXCEPT !.log = Append(@, LogEmit("econnreset", id)),
                            !.forwardReq = Destroy(@)]
             ELSE [S EXCEPT !.log = Append(@, LogEmit("econnreset", id)),
                            !.proxyReq = Destroy(@)]
        ELSE IF options.clb THEN [S EXCEPT !.log = Append(@, LogClb(url, id))]
        ELSE [S EXCEPT !.log = Append(@, LogEmit("error", id))]

\* emit("error", err) on a stream: its listeners in the order they were added
RECURSIVE EmitError(_, _, _, _, _, _)
EmitError(S, handlers, n, code, id, options) ==
    IF n > Len(handlers) THEN S
    ELSE EmitError(createErrorHandler(S, handlers[n], code, id, options),
                   handlers, n + 1, code, id, options)

\* res.on("close", ...): the request to the target is destroyed unless
\* everything was written
OnClose(S) ==
    IF S.res.onClose /\ ~S.res.writableFinished
    THEN [S EXCEPT !.proxyReq = Destroy(@)]
    ELSE S

\* pipeline(req, request) when the request fails: pipeline destroys req unless
\* req was read to its end or is closed, and req.destroy(err) destroys the
\* client's socket: res emits "close", req emits "error" with the same error
\* where the runtime emits it (emits), and the other request req is piped
\* into is destroyed as well
PipelineFailed(S, emits, code, id, options) ==
    IF S.req.ended \/ S.res.closed THEN S
    ELSE LET closed == OnClose([S EXCEPT !.res.closed = TRUE, !.res.destroyed = TRUE,
                                         !.req.socketDestroyed = TRUE])
             told   == IF emits /\ ~Errored(S.log, "req")
                       THEN EmitError([closed EXCEPT !.log = Append(@, LogSeen("req", id))],
                                      closed.req.onError, 1, code, id, options)
                       ELSE closed
         IN  PipelineBroken(told)

\* the error codes the streams fail with
Codes == {"ECONNRESET", "ECONNREFUSED"}

SetProxy(S) ==
    /\ preq' = S.req
    /\ pres' = S.res
    /\ proxyReq' = S.proxyReq
    /\ forwardReq' = S.forwardReq
    /\ plog' = S.log

\* req emits "error" (the client aborts, a parse error) before its end
ReqError(code) ==
    /\ preq.kind = "web"
    /\ preq.onError # <<>>
    /\ ~preq.ended
    /\ ~Errored(plog, "req")
    /\ LET seen == [ProxyState EXCEPT !.log = Append(@, LogSeen("req", NextErr))]
       IN  SetProxy(PipelineBroken(
               EmitError(seen, preq.onError, 1, code, NextErr, popts)))
    /\ UNCHANGED <<popts, passes, relay, proxySocket, resolved, composeVars, setupVars,
                   reqVars, errVars, routerVars>>

\* the request to the target emits "error": refused, reset, destroyed
ProxyReqError(code) ==
    /\ preq.kind = "web"
    /\ proxyReq \in {"open", "responding", "destroyed"}
    /\ ~Errored(plog, "proxyReq")
    /\ LET seen == [ProxyState EXCEPT !.log = Append(@, LogSeen("proxyReq", NextErr)),
                                      !.proxyReq = "destroyed"]
       IN  \E emits \in BOOLEAN :
              SetProxy(PipelineFailed(
                  createErrorHandler(seen, "proxyError", code, NextErr, popts),
                  emits, code, NextErr, popts))
    /\ UNCHANGED <<popts, passes, relay, proxySocket, resolved, composeVars, setupVars,
                   reqVars, errVars, routerVars>>

\* the request to options.forward emits "error"
ForwardReqError(code) ==
    /\ preq.kind = "web"
    /\ forwardReq \in {"open", "destroyed"}
    /\ ~Errored(plog, "forwardReq")
    /\ LET seen == [ProxyState EXCEPT !.log = Append(@, LogSeen("forwardReq", NextErr)),
                                      !.forwardReq = "destroyed"]
       IN  \E emits \in BOOLEAN :
              SetProxy(PipelineFailed(
                  createErrorHandler(seen, "forwardError", code, NextErr, popts),
                  emits, code, NextErr, popts))
    /\ UNCHANGED <<popts, passes, relay, proxySocket, resolved, composeVars, setupVars,
                   reqVars, errVars, routerVars>>

\* the inbound request has been read to its end: pipeline ends the requests
ReqEnd ==
    /\ preq.kind = "web"
    /\ preq.onError # <<>>
    /\ ~preq.ended
    /\ ~pres.closed
    /\ ~Errored(plog, "req")
    /\ preq' = [preq EXCEPT !.ended = TRUE]
    /\ UNCHANGED <<popts, passes, pres, proxyReq, forwardReq, plog, relay, proxySocket,
                   resolved, composeVars, setupVars, reqVars, errVars, routerVars>>

\* the forward server has answered; nothing listens to its response
ForwardDone ==
    /\ preq.kind = "web"
    /\ forwardReq = "open"
    /\ preq.ended
    /\ forwardReq' = "done"
    /\ UNCHANGED <<popts, passes, preq, pres, proxyReq, plog, relay, proxySocket,
                   resolved, composeVars, setupVars, reqVars, errVars, routerVars>>

\* proxyReq.setTimeout(options.proxyTimeout, () => proxyReq.destroy())
ProxyTimeout ==
    /\ preq.kind = "web"
    /\ popts.proxyTimeout
    /\ proxyReq = "open"
    /\ proxyReq' = "destroyed"
    /\ UNCHANGED <<popts, passes, preq, pres, forwardReq, plog, relay, proxySocket,
                   resolved, composeVars, setupVars, reqVars, errVars, routerVars>>

\* the application answers the request itself (selfHandleResponse, or a
\* listener of "start" or "proxyReq")
UserEnd ==
    /\ preq.kind = "web"
    /\ proxyReq \in {"open", "responding"}
    /\ ~pres.finished
    /\ ~pres.closed
    /\ ~pres.piped
    /\ pres' = [pres EXCEPT !.finished = TRUE, !.headersSent = TRUE]
    /\ UNCHANGED <<popts, passes, preq, proxyReq, forwardReq, plog, relay, proxySocket,
                   resolved, composeVars, setupVars, reqVars, errVars, routerVars>>

\* the application writes the head or a first chunk of its own answer
UserWriteHead ==
    /\ preq.kind = "web"
    /\ proxyReq = "open"
    /\ ~pres.headersSent
    /\ ~pres.finished
    /\ ~pres.closed
    /\ pres' = [pres EXCEPT !.headersSent = TRUE]
    /\ UNCHANGED <<popts, passes, preq, proxyReq, forwardReq, plog, relay, proxySocket,
                   resolved, composeVars, setupVars, reqVars, errVars, routerVars>>

\* if (!options.selfHandleResponse) pipeline(proxyRes, res, () => {})
PipesToResAlways(options) == TRUE

PipesToRes(options) == ~options.selfHandleResponse

\* proxyReq.on("response", ...): the "proxyRes" event, the outgoing passes
\* unless the headers are sent or the application handles the response, then
\* the pipe to res, or the "end" event at once when res is finished
ProxyResponse(proxyRes) ==
    /\ preq.kind = "web"
    /\ proxyReq = "open"
    /\ LET O0 == [req |-> preq, res |-> relay.res, proxyRes |-> proxyRes,
                  log |-> Append(plog, LogEmit("proxyRes", 0))]
           O  == IF ~pres.headersSent /\ ~popts.selfHandleResponse
                 THEN RunOutgoing(outgoing, 1, O0, popts) ELSE O0
       IN  /\ relay' = [backend |-> proxyRes, proxyRes |-> O.proxyRes, res |-> O.res]
           /\ IF ~pres.finished
              THEN /\ pres' = [pres EXCEPT !.onEnd = TRUE,
                                           !.piped = PipesToRes(popts)]
                   /\ plog' = O.log
              ELSE /\ pres' = pres
                   /\ plog' = Append(O.log, LogEmit("end", 0))
    /\ proxyReq' = "responding"
    /\ UNCHANGED <<popts, passes, preq, forwardReq, proxySocket, resolved, composeVars,
                   setupVars, reqVars, errVars, routerVars>>

\* the backend's response has been read to its end: the "end" event, and
\* pipeline ends res
ProxyResEnd ==
    /\ preq.kind = "web"
    /\ proxyReq = "responding"
    /\ proxyReq' = "done"
    /\ plog' = IF pres.onEnd THEN Append(plog, LogEmit("end", 0)) ELSE plog
    /\ pres' = IF pres.piped /\ ~pres.closed
               THEN [pres EXCEPT !.finished = TRUE, !.headersSent = TRUE]
               ELSE pres
    /\ UNCHANGED <<popts, passes, preq, forwardReq, relay, proxySocket, resolved,
                   composeVars, setupVars, reqVars, errVars, routerVars>>

\* everything written to res has been handed to the socket
Flushed ==
    /\ preq.kind = "web"
    /\ pres.finished
    /\ ~pres.writableFinished
    /\ ~pres.closed
    /\ pres' = [pres EXCEPT !.writableFinished = TRUE]
    /\ UNCHANGED <<popts, passes, preq, proxyReq, forwardReq, plog, relay, proxySocket,
                   resolved, composeVars, setupVars, reqVars, errVars, routerVars>>

\* the client's connection closes: "close" on res, and on req
ClientClose ==
    /\ preq.kind = "web"
    /\ ~pres.closed
    /\ SetProxy(PipelineBroken(OnClose(
           [ProxyState EXCEPT !.res.closed = TRUE, !.res.destroyed = TRUE,
                              !.req.socketDestroyed = TRUE])))
    /\ UNCHANGED <<popts, passes, relay, proxySocket, resolved, composeVars, setupVars,
                   reqVars, errVars, routerVars>>

\* socket.readyState: "closed" once the socket is neither readable nor
\* writable (destroyed, or ended by both sides), "readOnly" after
\* socket.end(), "writeOnly" after the client's end
readyStateOpen(socket) == "open"

readyState(socket) ==
    IF socket.destroyed \/ (socket.finished /\ socket.readEnded) THEN "closed"
    ELSE IF socket.finished THEN "readOnly"
    ELSE IF socket.readEnded THEN "writeOnly"
    ELSE "open"

\* what the handlers of an upgrade request work on
WsState == [res |-> pres, proxyReq |-> proxyReq, proxySocket |-> proxySocket, log |-> plog]

SetWs(S) ==
    /\ pres' = S.res
    /\ proxyReq' = S.proxyReq
    /\ proxySocket' = S.proxySocket
    /\ plog' = S.log

\* onOutgoingError(err): the callback, or "error" on the proxy, then socket.end()
onOutgoingError(S, id, options) ==
    [S EXCEPT !.log = Append(@, IF options.clb THEN LogClb("target", id)
                                ELSE LogEmit("error", id)),
              !.res.finished = TRUE]

\* proxySocket.end()
EndProxySocket(state) ==
    CASE state = "open" -> "ended"
      [] state = "halfOpen" -> "closed"
      [] OTHER -> state

\* socket.on("error", () => { proxySocket.end(); })
onSocketErrorReports(S, id, options) ==
    onOutgoingError([S EXCEPT !.proxySocket = EndProxySocket(@)], id, options)

onSocketError(S, id, options) == [S EXCEPT !.proxySocket = EndProxySocket(@)]

\* pipeline destroys proxySocket with the error the pipe failed with: unless
\* the socket is closed already it emits "error", which onOutgoingError
\* listens to
DestroyProxySocket(S, id, options) ==
    IF S.proxySocket \in {"open", "ended", "halfOpen"}
    THEN onOutgoingError([S EXCEPT !.proxySocket = "destroyed",
                                   !.log = Append(@, LogSeen("proxySocket", id))],
                         id, options)
    ELSE S

\* pipeline destroys the client's socket with the error the pipe failed
\* with: unless it is destroyed already it emits "error"
DestroySocket(S, id, options) ==
    IF S.res.destroyed THEN S
    ELSE onSocketError([S EXCEPT !.res.destroyed = TRUE, !.res.closed = TRUE,
                                 !.log = Append(@, LogSeen("socket", id))],
                       id, options)

\* the calls of the "upgrade" listener behind its own listeners, in order
UpgradeCallsPipeFirst(proxyHead) ==
    <<LogCall("pipeline(proxySocket, socket)"), LogCall("pipeline(socket, proxySocket)"),
      LogCall("setupSocket(proxySocket)")>>
    \o (IF proxyHead THEN <<LogCall("proxySocket.unshift(proxyHead)")>> ELSE <<>>)
    \o <<LogCall("socket.write(101)")>>

UpgradeCalls(proxyHead) ==
    <<LogCall("setupSocket(proxySocket)")>>
    \o (IF proxyHead THEN <<LogCall("proxySocket.unshift(proxyHead)")>> ELSE <<>>)
    \o <<LogCall("socket.write(101)"), LogCall("pipeline(proxySocket, socket)"),
         LogCall("pipeline(socket, proxySocket)")>>

\* proxyReq.on("upgrade", ...): the listeners, the socket options and the
\* head on proxySocket, the 101 header written to the socket, the two pipes,
\* "open" and "proxySocket"; a pipe into a socket that is destroyed already
\* fails at once where the runtime notices it (notices)
WsUpgrade(proxyHead, notices) ==
    /\ preq.kind = "ws"
    /\ proxyReq = "open"
    /\ LET piped == [WsState EXCEPT
                        !.proxyReq = "upgraded",
                        !.proxySocket = IF pres.readEnded THEN "ended" ELSE "open",
                        !.res.onError = TRUE,
                        !.res.piped = TRUE,
                        !.res.written = IF readyState(pres) \in {"open", "writeOnly"}
                                        THEN @ + 1 ELSE @,
                        !.log = @ \o UpgradeCalls(proxyHead)
                                  \o <<LogEmit("open", 0), LogEmit("proxySocket", 0)>>]
       IN  SetWs(IF pres.destroyed /\ notices
                 THEN DestroyProxySocket(piped, NextErr, popts)
                 ELSE piped)
    /\ UNCHANGED <<popts, passes, preq, forwardReq, relay, resolved, composeVars, setupVars,
                   reqVars, errVars, routerVars>>

\* proxyReq.on("response", ...): the backend does not upgrade; its response
\* is written and piped to the socket unless the socket is closed
WsResponse ==
    /\ preq.kind = "ws"
    /\ proxyReq = "open"
    /\ proxyReq' = "responding"
    /\ IF readyState(pres) # "closed"
       THEN /\ pres' = [pres EXCEPT !.written = IF pres.finished THEN @ ELSE @ + 1,
                                    !.piped = TRUE]
            /\ plog' = plog \o <<LogCall("socket.write(response)"),
                                 LogCall("pipeline(res, socket)")>>
       ELSE /\ pres' = pres
            /\ plog' = plog
    /\ UNCHANGED <<popts, passes, preq, forwardReq, relay, proxySocket, resolved, composeVars,
                   setupVars, reqVars, errVars, routerVars>>

\* the backend's response has been read to its end: pipeline ends the socket
WsResponseEnd ==
    /\ preq.kind = "ws"
    /\ proxyReq = "responding"
    /\ proxyReq' = "done"
    /\ pres' = IF pres.piped THEN [pres EXCEPT !.finished = TRUE] ELSE pres
    /\ UNCHANGED <<popts, passes, preq, forwardReq, plog, relay, proxySocket,
                   resolved, composeVars, setupVars, reqVars, errVars, routerVars>>

\* the request to the backend emits "error" before the upgrade: refused,
\* reset, torn down with the response it was relaying
WsReqError(code) ==
    /\ preq.kind = "ws"
    /\ proxyReq \in {"open", "responding", "destroyed"}
    /\ ~Errored(plog, "proxyReq")
    /\ LET seen == [WsState EXCEPT !.log = Append(@, LogSeen("proxyReq", NextErr)),
                                   !.proxyReq = "destroyed"]
           told == onOutgoingError(seen, NextErr, popts)
       IN  SetWs(IF pres.piped
                 THEN [told EXCEPT !.res.destroyed = TRUE, !.res.closed = TRUE]
                 ELSE told)
    /\ UNCHANGED <<popts, passes, preq, forwardReq, relay, resolved, composeVars, setupVars,
                   reqVars, errVars, routerVars>>

\* proxySocket emits "error": onOutgoingError, and the pipes destroy the
\* client's socket
ProxySocketError(code) ==
    /\ preq.kind = "ws"
    /\ proxySocket \in {"open", "ended", "halfOpen"}
    /\ ~Errored(plog, "proxySocket")
    /\ LET seen == [WsState EXCEPT !.log = Append(@, LogSeen("proxySocket", NextErr)),
                                   !.proxySocket = "destroyed"]
       IN  SetWs(DestroySocket(onOutgoingError(seen, NextErr, popts), NextErr, popts))
    /\ UNCHANGED <<popts, passes, preq, forwardReq, relay, resolved, composeVars, setupVars,
                   reqVars, errVars, routerVars>>

\* the client's socket emits "error" after the upgrade: proxySocket.end(),
\* and the pipes destroy proxySocket
ClientSocketError(code) ==
    /\ preq.kind = "ws"
    /\ pres.onError
    /\ ~pres.destroyed
    /\ ~Errored(plog, "socket")
    /\ LET seen == [WsState EXCEPT !.log = Append(@, LogSeen("socket", NextErr)),
                                   !.res.destroyed = TRUE, !.res.closed = TRUE]
       IN  SetWs(DestroyProxySocket(onSocketError(seen, NextErr, popts),
                                    NextErr, popts))
    /\ UNCHANGED <<popts, passes, preq, forwardReq, relay, resolved, composeVars, setupVars,
                   reqVars, errVars, routerVars>>

\* the client's connection closes without an error: a pipe that is not
\* finished fails with a premature close and destroys proxySocket, and the
\* response that was being relayed is destroyed with its request
WsClientClose ==
    /\ preq.kind = "ws"
    /\ proxyReq # "none"
    /\ ~pres.destroyed
    /\ LET closed == [WsState EXCEPT !.res.destroyed = TRUE, !.res.closed = TRUE,
                                     !.proxyReq = IF @ = "responding" /\ pres.piped
                                                  THEN "destroyed" ELSE @]
       IN  SetWs(DestroyProxySocket(closed, NextErr, popts))
    /\ UNCHANGED <<popts, passes, preq, forwardReq, relay, resolved, composeVars, setupVars,
                   reqVars, errVars, routerVars>>

\* the client ends its side of the connection: the pipe ends proxySocket
WsClientEnd ==
    /\ preq.kind = "ws"
    /\ proxyReq # "none"
    /\ ~pres.destroyed
    /\ ~pres.readEnded
    /\ pres' = [pres EXCEPT !.readEnded = TRUE]
    /\ proxySocket' = EndProxySocket(proxySocket)
    /\ UNCHANGED <<popts, passes, preq, proxyReq, forwardReq, plog, relay,
                   resolved, composeVars, setupVars, reqVars, errVars, routerVars>>

\* proxySocket.on("end", ...): the backend ends its side, "close" is emitted
\* on the proxy and the pipe ends the client's socket
ProxySocketEnd ==
    /\ preq.kind = "ws"
    /\ proxySocket \in {"open", "ended"}
    /\ proxySocket' = IF proxySocket = "ended" THEN "closed" ELSE "halfOpen"
    /\ plog' = Append(plog, LogEmit("close", 0))
    /\ pres' = [pres EXCEPT !.finished = TRUE]
    /\ UNCHANGED <<popts, passes, preq, proxyReq, forwardReq, relay, resolved, composeVars,
                   setupVars, reqVars, errVars, routerVars>>

\* ------------------------------------------------------------------------
\* The proxy: one request from the call to the end of its streams
\* ------------------------------------------------------------------------
Target == "http://backend.com"

ProxyOptions ==
    {[NoOptions EXCEPT !.target = t, !.forward = f, !.selfHandleResponse = s,
                       !.proxyTimeout = x, !.xfwd = x, !.timeout = x] :
        t \in {"", Target}, f \in {"", "http://mirror.com"}, s \in BOOLEAN,
        x \in BOOLEAN}

WebRequests ==
    {[NoRequest EXCEPT !.method = "GET", !.headers.host = <<"ext-auto.com:8080">>],
     [NoRequest EXCEPT !.method = "DELETE", !.headers.host = <<"ext-auto.com">>,
                       !.headers.xfFor = <<"1.1.1.1">>]}

WsRequests ==
    {[NoRequest EXCEPT !.method = m, !.headers.upgrade = u,
                       !.headers.host = <<"ext-auto.com">>] :
        m \in {"GET", "POST"},
        u \in {<<>>, <<"">>, <<"websocket">>, <<"WebSocket">>, <<"h2c">>}}
    \cup
    {[NoRequest EXCEPT !.headers.upgrade = <<"websocket">>, !.head = TRUE,
                       !.headers.host = <<"ext-auto.com">>]}

\* a header of the backend's response
Hdr(key, value) == [key |-> key, value |-> <<value>>, array |-> FALSE]

Backends ==
    {[statusCode |-> 200, statusMessage |-> "OK",
      headers |-> <<Hdr("content-type", "text/plain")>>,
      rawHeaders |-> <<"Content-Type", "text/plain">>],
     [statusCode |-> 302, statusMessage |-> "",
      headers |-> <<Hdr("location", "http://backend.com/")>>,
      rawHeaders |-> <<"Location", "http://backend.com/">>]}

\* the arguments of before() and after()
PassTypes == {"web", "ws", "http"}

PassNames == Range(WebPasses) \cup Range(WsPasses)

Callbacks == {"handled", "noop"}

ProxyInit ==
    /\ ComposeIdle
    /\ SetupIdle
    /\ ReqIdle
    /\ ErrIdle
    /\ RouterIdle
    /\ popts \in ProxyOptions
    /\ passes = [web |-> WebPasses, ws |-> WsPasses]
    /\ preq = NoRequest
    /\ pres = NewClient
    /\ proxyReq = "none"
    /\ forwardReq = "none"
    /\ plog = <<>>
    /\ relay = NoRelay
    /\ proxySocket = "none"
    /\ resolved = NoResolve

ProxyNext ==
    \/ \E op \in {"before", "after"}, type \in PassTypes, passName \in PassNames,
          callback \in Callbacks : AddPass(op, type, passName, callback)
    \/ \E request \in WebRequests, clb \in BOOLEAN : ProxyCall("web", request, clb)
    \/ \E request \in WsRequests, clb \in BOOLEAN : ProxyCall("ws", request, clb)
    \/ \E code \in Codes : ReqError(code)
    \/ \E code \in Codes : ProxyReqError(code)
    \/ \E code \in Codes : ForwardReqError(code)
    \/ ReqEnd
    \/ ForwardDone
    \/ ProxyTimeout
    \/ UserEnd
    \/ UserWriteHead
    \/ \E proxyRes \in Backends : ProxyResponse(proxyRes)
    \/ ProxyResEnd
    \/ Flushed
    \/ ClientClose
    \/ \E proxyHead, notices \in BOOLEAN : WsUpgrade(proxyHead, notices)
    \/ WsResponse
    \/ WsResponseEnd
    \/ \E code \in Codes : WsReqError(code)
    \/ \E code \in Codes : ProxySocketError(code)
    \/ \E code \in Codes : ClientSocketError(code)
    \/ WsClientClose
    \/ WsClientEnd
    \/ ProxySocketEnd

SpecProxy == ProxyInit /\ [][ProxyNext]_vars



\* ------------------------------------------------------------------------
\* The proxy: the backend's response relayed by the outgoing passes
\* ------------------------------------------------------------------------
\* an object of cookie rewrite rules, a string, and no option
Rules(map) == [kind |-> "object", str |-> "", map |-> map]

Rule(key, value) == [key |-> key, value |-> value]

Always(str) == [kind |-> "string", str |-> str, map |-> <<>>]

DomainConfigs ==
    {NoConfig, Always("my.new.domain"), Always(""),
     Rules(<<Rule("*", "my.new.domain"), Rule("my.special.domain", "my.changed.domain")>>),
     Rules(<<Rule("my.old.domain", "")>>),
     Rules(<<Rule("my.old.domain", "my.kept.domain"), Rule("*", "")>>)}

PathConfigs ==
    {NoConfig, Always("/new"),
     Rules(<<Rule("/special", "/changed"), Rule("*", "/wild")>>)}

OutOptions ==
    {[NoOptions EXCEPT !.target = Target, !.hostRewrite = h, !.autoRewrite = a,
                       !.protocolRewrite = p] :
        h \in {"", "ext-manual.com"}, a \in BOOLEAN, p \in {"", "https"}}
    \cup
    {[NoOptions EXCEPT !.target = Target, !.cookieDomainRewrite = d,
                       !.cookiePathRewrite = c, !.preserveHeaderKeyCase = k] :
        d \in DomainConfigs, c \in PathConfigs, k \in BOOLEAN}

OutRequests ==
    {[NoRequest EXCEPT !.httpVersion = v, !.headers.host = h] :
        v \in {"1.0", "1.1"}, h \in {<<>>, <<"ext-auto.com">>}}

Locations ==
    {"http://backend.com/", "http://backend.com:8080/", "http://other.com/x",
     "/relative", "http://Backend.com"}

Cookies ==
    {<<"hello; domain=my.old.domain; path=/">>,
     <<"there; Domain=my.special.domain; Path=/special">>,
     <<"a=1; path=/;  DOMAIN=other.domain", "b=2">>,
     <<"c=3; domain=;path=/special; domain=my.old.domain">>,
     <<"d=4; domain=constructor">>}

OutResponses ==
    {[statusCode |-> c, statusMessage |-> "", headers |-> <<Hdr("location", l)>>,
      rawHeaders |-> <<"Location", l>>] :
        c \in {200, 201, 301, 302, 303, 307, 308}, l \in Locations}
    \cup
    {[statusCode |-> 302, statusMessage |-> "Found", headers |-> <<>>,
      rawHeaders |-> <<>>]}
    \cup
    {[statusCode |-> 200, statusMessage |-> "OK",
      headers |-> <<Hdr("transfer-encoding", "chunked"),
                    [key |-> "set-cookie", value |-> c, array |-> TRUE]>>,
      rawHeaders |-> <<"Transfer-Encoding", "chunked", "Set-Cookie", c[1]>>] :
        c \in Cookies}

\* the request has gone through the incoming passes and waits for the backend
OutInit ==
    /\ ComposeIdle
    /\ SetupIdle
    /\ ReqIdle
    /\ ErrIdle
    /\ RouterIdle
    /\ passes = [web |-> WebPasses, ws |-> WsPasses]
    /\ relay = NoRelay
    /\ proxySocket = "none"
    /\ resolved = NoResolve
    /\ \E options \in OutOptions, request \in OutRequests :
          LET S == createRightProxy("web", WebPasses,
                       [req |-> [request EXCEPT !.kind = "web"], res |-> NewClient,
                        proxyReq |-> "none", forwardReq |-> "none", log |-> <<>>],
                       options)
          IN  /\ popts = options
              /\ preq = S.req
              /\ pres = S.res
              /\ proxyReq = S.proxyReq
              /\ forwardReq = S.forwardReq
              /\ plog = S.log

OutNext ==
    \/ \E proxyRes \in OutResponses : ProxyResponse(proxyRes)
    \/ ProxyResEnd
    \/ Flushed

SpecOut == OutInit /\ [][OutNext]_vars

\* ------------------------------------------------------------------------
\* config.resolveProxy: the target of a request by the table of rules
\* ------------------------------------------------------------------------
\* a rule's key as the parts of a regular expression: characters that stand
\* for themselves, the group ([0-9]+), the run .*, and the (?:\W|$) that
\* resolveProxy puts behind a key
Text(str) == [t |-> "text", s |-> str]

DigitGroup == [t |-> "digits", s |-> "([0-9]+)"]

AnyRun == [t |-> "any", s |-> ".*"]

Boundary == [t |-> "boundary", s |-> ""]

\* the key as it is written
RECURSIVE Written(_)
Written(parts) == IF parts = <<>> THEN "" ELSE Head(parts).s \o Written(Tail(parts))

\* \w: a letter, a digit or the underscore
IsWordChar(c) ==
    \/ \E k \in 1..Len(UpperLetters) : c \in {SubSeq(UpperLetters, k, k), SubSeq(LowerLetters, k, k)}
    \/ IsDigit(c)
    \/ c = "_"

\* the number of digits of str from position p on
RECURSIVE DigitRun(_, _)
DigitRun(str, p) ==
    IF p <= Len(str) /\ IsDigit(SubSeq(str, p, p)) THEN 1 + DigitRun(str, p + 1) ELSE 0

NoMatchAt == [ok |-> FALSE, end |-> 0, edge |-> 0, groups |-> <<>>]

\* the match of the parts from the i-th on at position p that backtracking
\* finds first: where it ends, where the boundary begins, what the groups hold
RECURSIVE MatchParts(_, _, _, _)
RECURSIVE Longest(_, _, _, _, _)
MatchParts(parts, i, str, p) ==
    IF i > Len(parts) THEN [ok |-> TRUE, end |-> p, edge |-> p, groups |-> <<>>]
    ELSE LET part == parts[i]
         IN  CASE part.t = "text" ->
                    IF /\ p + Len(part.s) - 1 <= Len(str)
                       /\ SubSeq(str, p, p + Len(part.s) - 1) = part.s
                    THEN MatchParts(parts, i + 1, str, p + Len(part.s))
                    ELSE NoMatchAt
               [] part.t = "digits" -> Longest(parts, i, str, p, DigitRun(str, p))
               [] part.t = "any" -> Longest(parts, i, str, p, Len(str) - p + 1)
               [] part.t = "boundary" ->
                    IF p <= Len(str) /\ ~IsWordChar(SubSeq(str, p, p))
                    THEN [ok |-> TRUE, end |-> p + 1, edge |-> p, groups |-> <<>>]
                    ELSE IF p = Len(str) + 1
                    THEN [ok |-> TRUE, end |-> p, edge |-> p, groups |-> <<>>]
                    ELSE NoMatchAt

\* a greedy part: n characters, then fewer, down to the least it takes
Longest(parts, i, str, p, n) ==
    LET digits == parts[i].t = "digits"
        rest   == MatchParts(parts, i + 1, str, p + n)
    IN  IF n < (IF digits THEN 1 ELSE 0) THEN NoMatchAt
        ELSE IF rest.ok
        THEN (IF digits THEN [rest EXCEPT !.groups = <<SubSeq(str, p, p + n - 1)>> \o @]
              ELSE rest)
        ELSE Longest(parts, i, str, p, n - 1)

\* pathPrefix.slice(-1) === "/"
pathEndSlash(parts) ==
    LET key == Written(parts) IN key # "" /\ SubSeq(key, Len(key), Len(key)) = "/"

\* new RegExp(pathEndSlash ? pathPrefix : `(${pathPrefix})(?:\\W|$)`).exec(path):
\* the leftmost match, its index, and the array of the match and its groups
exec(parts, str) ==
    LET whole  == IF pathEndSlash(parts) THEN parts ELSE Append(parts, Boundary)
        starts == {p \in 1..(Len(str) + 1) : MatchParts(whole, 1, str, p).ok}
    IN  IF starts = {} THEN [ok |-> FALSE, index |-> 0, match |-> <<>>]
        ELSE LET p == CHOOSE p \in starts : \A q \in starts : p <= q
                 m == MatchParts(whole, 1, str, p)
             IN  [ok |-> TRUE, index |-> p - 1,
                  match |-> <<SubSeq(str, p, m.end - 1)>>
                            \o (IF pathEndSlash(parts) THEN <<>>
                                ELSE <<SubSeq(str, p, m.edge - 1)>>)
                            \o m.groups]

\* str.replace(what, with) for a string what: its first occurrence
ReplaceFirst(str, what, with) ==
    LET at == {i \in 1..(Len(str) - Len(what) + 1) : SubSeq(str, i, i + Len(what) - 1) = what}
    IN  IF at = {} THEN str
        ELSE LET i == CHOOSE i \in at : \A k \in at : i <= k
             IN  Take(str, i - 1) \o with \o Drop(str, i + Len(what) - 1)

\* for (let i = 0; i < testPrefixMatch.length; i++)
\*     target = target.replace("$" + i, testPrefixMatch[i + (pathEndSlash ? 0 : 1)])
RECURSIVE Substitute(_, _, _, _)
Substitute(to, match, i, shift) ==
    IF i >= Len(match) THEN to
    ELSE Substitute(ReplaceFirst(to, "$" \o ToString(i),
                                 IF i + shift < Len(match) THEN match[i + shift + 1]
                                 ELSE "undefined"),
                    match, i + 1, shift)

\* rules["default"]
Default(rules) ==
    rules[CHOOSE n \in 1..Len(rules) : Written(rules[n].key) = "default"].target

\* testPrefixMatch && testPrefixMatch.index === 0
MatchedAnywhere(m) == m.ok

MatchedAtStart(m) == m.ok /\ m.index = 0

\* for (const pathPrefix in rules), from the n-th key on
RECURSIVE Scan(_, _, _)
Scan(path, rules, n) ==
    IF n > Len(rules) THEN [url |-> path, target |-> Default(rules)]
    ELSE LET slash == pathEndSlash(rules[n].key)
             m     == exec(rules[n].key, path)
         IN  IF MatchedAtStart(m)
             THEN [url |-> ReplaceFirst(path, m.match[IF slash THEN 1 ELSE 2], ""),
                   target |-> Substitute(rules[n].target, m.match, 0,
                                         IF slash THEN 0 ELSE 1)]
             ELSE Scan(path, rules, n + 1)

resolveProxy(path, rules) == Scan(path, rules, 1)

\* config.resolveProxy(req, rules): req.url is rewritten, the target returned
Resolve ==
    /\ resolved.rules # <<>>
    /\ ~resolved.called
    /\ LET r == resolveProxy(resolved.path, resolved.rules)
       IN  resolved' = [resolved EXCEPT !.url = r.url, !.target = r.target,
                                        !.called = TRUE]
    /\ UNCHANGED <<popts, passes, preq, pres, proxyReq, forwardReq, plog, relay,
                   proxySocket, composeVars, setupVars, reqVars, errVars, routerVars>>

PathRule(parts, to) == [key |-> parts, target |-> to]

Local == "http://127.0.0.1:8080"

DefaultRule == PathRule(<<Text("default")>>, Local)

\* the tables of the tests, and two tables that differ in the order of
\* their keys
RuleTables ==
    {<<DefaultRule,
       PathRule(<<Text("/testC")>>, Local \o "/testC"),
       PathRule(<<Text("/testE/id/"), DigitGroup, Text("/data/"), DigitGroup>>,
                Local \o "/a/$1/b/$2"),
       PathRule(<<Text("/testF/id/"), DigitGroup, Text("/data/"), DigitGroup, Text("/")>>,
                Local \o "/a/$1/b/$2/")>>,
     <<PathRule(<<AnyRun, Text("/testA")>>, Local \o "/testA"),
       PathRule(<<AnyRun, Text("/testB/")>>, Local \o "/testB/"),
       DefaultRule>>,
     <<PathRule(<<Text("/api")>>, "http://127.0.0.1:8000/api"),
       PathRule(<<Text("/api/v"), DigitGroup>>, "http://127.0.0.1:8000/v$1"),
       DefaultRule>>,
     <<PathRule(<<Text("/api/v"), DigitGroup>>, "http://127.0.0.1:8000/v$1"),
       PathRule(<<Text("/api")>>, "http://127.0.0.1:8000/api"),
       DefaultRule>>}

Urls ==
    {"/", "/nothing", "/testC", "/testC/x", "/testCase", "/x/testC", "/testD?foo=bar",
     "/testE/id/2/data/233", "/testE/id/2/data/233x", "/testE/id/x/data/1",
     "/testF/id/2/data/233/", "/testF/id/2/data/233/tail", "/LONGTEXT/testA",
     "/LONGTEXT/testB/", "/api", "/api?x=1", "/apiary", "/api/v12/users", "/api/v2"}

ResolveInit ==
    /\ ComposeIdle
    /\ SetupIdle
    /\ ReqIdle
    /\ ErrIdle
    /\ RouterIdle
    /\ popts = NoOptions
    /\ passes = [web |-> WebPasses, ws |-> WsPasses]
    /\ preq = NoRequest
    /\ pres = NewClient
    /\ proxyReq = "none"
    /\ forwardReq = "none"
    /\ plog = <<>>
    /\ relay = NoRelay
    /\ proxySocket = "none"
    /\ \E url \in Urls, rules \in RuleTables :
          resolved = [url |-> url, path |-> url, rules |-> rules, target |-> "",
                      called |-> FALSE]

ResolveNext == Resolve

SpecResolve == ResolveInit /\ [][ResolveNext]_vars


\* ------------------------------------------------------------------------
\* Properties of the proxy
\* ------------------------------------------------------------------------
\* the names of the log's entries of one kind, in the order of the log
NamesOf(kind) ==
    LET es == SelectSeq(plog, LAMBDA e : e.kind = kind)
    IN  [n \in 1..Len(es) |-> es[n].name]

\* whether a pass of the inbound request's list returns a true value: a pass
\* of the application that handles the request, the check of an upgrade
\* request that is not a GET for a websocket, the stream pass of an upgrade
Returns(name) ==
    \/ name = "handled"
    \/ /\ preq.kind = "ws"
       /\ name = "checkMethodAndHeader"
       /\ \/ preq.method # "GET"
          \/ preq.headers.upgrade \in {<<>>, <<"">>}
          \/ Lower(preq.headers.upgrade[1]) # "websocket"
    \/ preq.kind = "ws" /\ name = "stream"

Unconfigured == popts.target = "" /\ popts.forward = ""

\* C25: the passes of a request run in the order of their list, the incoming
\* list at the call and the outgoing list at the backend's response; a pass
\* runs only if every pass before it in the list ran and returned nothing
\* true, and the list stops only there; with neither target nor forward no
\* pass runs and "error" is emitted on the proxy.
C25_PassesInOrder ==
    preq.kind # "none" =>
        LET list == passes[preq.kind]
            ran  == NamesOf("pass")
            out  == NamesOf("out")
        IN  /\ Len(ran) <= Len(list)
            /\ ran = SubSeq(list, 1, Len(ran))
            /\ \A i \in 1..(Len(ran) - 1) : ~Returns(ran[i])
            /\ Unconfigured => ran = <<>> /\ plog = <<LogEmit("error", 0)>>
            /\ ~Unconfigured /\ Len(ran) < Len(list) =>
                  ran # <<>> /\ Returns(ran[Len(ran)])
            /\ out \in {<<>>, outgoing}
            /\ \A i, k \in 1..Len(plog) :
                  plog[i].kind = "pass" /\ plog[k].kind = "out" => i < k

\* a pass of the application handled the request ahead of the built-in
\* passes behind it, which did not run
C25_Witness ==
    /\ preq.kind = "web"
    /\ Len(passes.web) = 5
    /\ passes.web[3] = "handled"
    /\ NamesOf("pass") = <<"deleteLength", "timeout", "handled">>
    /\ proxyReq = "none"

\* whether the upgrade check has run on the request
Checked == \E n \in 1..Len(plog) : plog[n] = LogPass("checkMethodAndHeader")

\* an upgrade request that is not a GET, or has no Upgrade header, or one
\* that is not "websocket" whatever its case
Rejected ==
    \/ preq.method # "GET"
    \/ preq.headers.upgrade \in {<<>>, <<"">>}
    \/ Lower(preq.headers.upgrade[1]) # "websocket"

\* C26: an upgrade request the check runs on that is not a GET, or has no
\* Upgrade header, or whose Upgrade header is not "websocket" compared
\* without case, has its socket destroyed, nothing is written to the socket
\* and no request is made to a backend; checkMethodAndHeader does not
\* destroy the socket of a GET request for a websocket.
C26_UpgradeChecked ==
    /\ [](preq.kind = "ws" /\ Checked /\ Rejected =>
             /\ pres.destroyed
             /\ pres.written = 0
             /\ proxyReq = "none"
             /\ forwardReq = "none")
    /\ [][(preq.kind = "none" /\ preq'.kind = "ws" /\ Checked' /\ ~Rejected')
             => ~pres'.destroyed]_vars

\* a POST with Upgrade: websocket was turned away
C26_Witness ==
    /\ preq.kind = "ws"
    /\ Checked
    /\ preq.method = "POST"
    /\ preq.headers.upgrade = <<"websocket">>
    /\ pres.destroyed

InFlight(state) == state \in {"open", "responding"}

\* C27 as it is worded: when the client's connection closes before the
\* response was written completely, the request to the target is destroyed
\* and no backend request of the client's request stays open; a close after
\* the response was written completely destroys nothing.
C27_Original ==
    /\ [](pres.onClose /\ pres.closed /\ ~pres.writableFinished =>
             ~InFlight(proxyReq) /\ ~InFlight(forwardReq))
    /\ [][ClientClose /\ pres.onClose /\ ~pres.writableFinished =>
             ~InFlight(proxyReq') /\ ~InFlight(forwardReq')]_vars
    /\ [][ClientClose /\ pres.onClose /\ pres.writableFinished =>
             proxyReq' = proxyReq /\ forwardReq' = forwardReq]_vars

\* what a step added to the log behind the error it observed
Reported == SubSeq(plog', Len(plog) + 2, Len(plog'))

\* C30 as it is worded: an error of the request to the target or of the
\* inbound request is handled once: with the inbound socket destroyed and the
\* code ECONNRESET "econnreset" is emitted and the request to the target
\* aborted, else the callback is called if there is one, else "error" is
\* emitted; nothing else is reported for that error.
C30_Original ==
    [][\A code \in Codes :
          (ReqError(code) \/ ProxyReqError(code)) /\ popts.target # "" =>
              IF preq.socketDestroyed /\ code = "ECONNRESET"
              THEN /\ Reported = <<LogEmit("econnreset", NextErr)>>
                   /\ ~InFlight(proxyReq')
              ELSE \/ popts.clb /\ Len(Reported) = 1 /\ Reported[1].kind = "clb"
                   \/ ~popts.clb /\ Reported = <<LogEmit("error", NextErr)>>]_vars


\* the outgoing passes have run on the backend's response
Relayed == NamesOf("out") = outgoing

\* the Location header the backend sent and the one set on res
BackendLocation == HeaderOf(relay.backend.headers, "location")

\* the value of a header of res, whatever the case of its name
ClientHeader(name) ==
    IF \E n \in 1..Len(relay.res.headers) : Lower(relay.res.headers[n].key) = name
    THEN relay.res.headers[CHOOSE n \in 1..Len(relay.res.headers) :
                              Lower(relay.res.headers[n].key) = name].value
    ELSE <<>>

ClientLocation == ClientHeader("location")

\* the conditions under which the Location header is to be rewritten
Rewritable ==
    /\ relay.backend.statusCode \in {201, 301, 302, 307, 308}
    /\ popts.hostRewrite # "" \/ popts.autoRewrite \/ popts.protocolRewrite # ""
    /\ BackendLocation # <<>>
    /\ parse(BackendLocation[1]).host = parse(popts.target).host

\* the host and the protocol the rewritten Location is to carry
NewHost ==
    IF popts.hostRewrite # "" THEN popts.hostRewrite
    ELSE IF popts.autoRewrite THEN preq.headers.host[1]
    ELSE parse(BackendLocation[1]).host

NewProtocol ==
    IF popts.protocolRewrite # "" THEN popts.protocolRewrite \o ":"
    ELSE parse(BackendLocation[1]).protocol

\* C28: the Location header is changed only for the statuses 201, 301, 302,
\* 307 and 308, with a rewrite option set and the Location's host (port
\* included) equal to the target's; its host then becomes hostRewrite, else
\* the inbound Host header under autoRewrite, and its protocol
\* protocolRewrite; otherwise it is relayed as it came; res gets the
\* rewritten header.  (Nothing is said of autoRewrite for a request that has
\* no Host header.)
C28_RedirectRewrite ==
    Relayed =>
        /\ ~Rewritable => ClientLocation = BackendLocation
        /\ Rewritable /\ (popts.hostRewrite # "" \/ ~popts.autoRewrite
                            \/ preq.headers.host # <<>>) =>
              /\ ClientLocation =
                    <<NewProtocol \o "//" \o NewHost \o parse(BackendLocation[1]).path>>
              /\ ClientLocation = HeaderOf(relay.proxyRes.headers, "location")

\* hostRewrite won over autoRewrite on a 302 to the target's host
C28_Witness ==
    /\ Relayed
    /\ relay.backend.statusCode = 302
    /\ popts.hostRewrite = "ext-manual.com"
    /\ popts.autoRewrite
    /\ preq.headers.host = <<"ext-auto.com">>
    /\ BackendLocation = <<"http://backend.com/">>
    /\ ClientLocation = <<"http://ext-manual.com/">>

\* a rewrite option as a mapping: a string is the mapping of "*" to it
AsMapping(config) ==
    IF config.kind = "string" THEN <<Rule("*", config.str)>> ELSE config.map

\* the cookie with its first attribute `property` given the value of the
\* mapping's entry for the attribute's value, else of its "*" entry; left as
\* it is without either, and without the attribute for an empty value
Rewritten(cookie, config, property) ==
    LET i     == FirstMatch(cookie, property)
        v     == MatchAt(cookie, i, property)
        e     == v + ValueLen(cookie, v)
        value == SubSeq(cookie, v, e - 1)
        map   == AsMapping(config)
        own   == {n \in 1..Len(map) : map[n].key = value}
        any   == {n \in 1..Len(map) : map[n].key = "*"}
        new   == map[CHOOSE n \in (IF own # {} THEN own ELSE any) : TRUE].value
    IN  IF config.kind = "none" \/ i = 0 \/ (own = {} /\ any = {}) THEN cookie
        ELSE IF new = "" THEN Take(cookie, i - 1) \o Drop(cookie, e - 1)
        ELSE Take(cookie, v - 1) \o new \o Drop(cookie, e - 1)

BackendCookies == HeaderOf(relay.backend.headers, "set-cookie")

ClientCookies == ClientHeader("set-cookie")

\* C29: every Set-Cookie header is copied with its domain attribute, then its
\* path attribute, rewritten by the mapping: the entry of the attribute's
\* value wins over the "*" entry, the "*" entry serves a value without an
\* entry, without either the cookie is unchanged, an empty replacement takes
\* the attribute out; a string option is the mapping of "*" to the string.
C29_Original ==
    Relayed =>
        /\ Len(ClientCookies) = Len(BackendCookies)
        /\ \A n \in 1..Len(BackendCookies) :
              ClientCookies[n] =
                  Rewritten(Rewritten(BackendCookies[n], popts.cookieDomainRewrite,
                                      "domain"),
                            popts.cookiePathRewrite, "path")

\* the request to options.forward fails
ForwardFailed == \E code \in Codes : ForwardReqError(code)

\* whether the stream pass has run on the request
Streamed == \E n \in 1..Len(plog) : plog[n] = LogPass("stream")

\* C31 as it is worded: an error of the request to options.forward leaves
\* the request to the target and the client's response as they are, neither
\* destroyed nor ended; with forward and no target the stream pass ends the
\* client's response and makes no request to a target.
C31_Original ==
    /\ [][ForwardFailed => proxyReq' = proxyReq /\ pres' = pres]_vars
    /\ [](preq.kind = "web" /\ Streamed /\ popts.forward # "" /\ popts.target = "" =>
             pres.finished /\ proxyReq = "none")

\* the step wrote the backend's response to the client's socket and piped
\* its body there
Relays ==
    /\ plog' = plog \o <<LogCall("socket.write(response)"),
                          LogCall("pipeline(res, socket)")>>
    /\ pres'.written = pres.written + 1
    /\ pres'.piped

\* C32: when the backend answers an upgrade request with an ordinary
\* response, the response is written and piped to the client's socket if
\* the socket has not closed, and a socket that closed before the response
\* gets nothing: no write, no pipe, whatever happened in between.
C32_ResponseRelayed ==
    [][WsResponse =>
          IF pres.closed THEN pres' = pres /\ plog' = plog ELSE Relays]_vars

\* the client went away before the backend answered, nothing was written
C32_Witness ==
    /\ preq.kind = "ws"
    /\ proxyReq = "responding"
    /\ pres.closed
    /\ pres.written = 0
    /\ ~pres.piped

\* how often the callback was called or "error" emitted on the proxy
Completions ==
    Len(SelectSeq(plog, LAMBDA e : e.kind = "clb" \/ e = LogEmit("error", e.err)))

\* a socket of the upgraded connection has emitted "error"
SocketErrored == Errored(plog, "socket") \/ Errored(plog, "proxySocket")

\* C33: for an upgrade request, once the client's socket or the backend's
\* socket has emitted an error after the upgrade, both sockets are torn down
\* (the pipes destroy them in the steps the error sets off, taken here with
\* the error), and over the whole request the callback, or "error" on the
\* proxy without a callback, fires at most once.
C33_TerminatedOnce ==
    preq.kind = "ws" =>
        /\ Completions <= 1
        /\ SocketErrored => /\ pres.destroyed
                            /\ proxySocket \in {"destroyed", "closed"}

\* the client's socket failed after the upgrade: both sockets are gone and
\* the error was reported once
C33_Witness ==
    /\ preq.kind = "ws"
    /\ Errored(plog, "socket")
    /\ Errored(plog, "proxySocket")
    /\ plog[1 + Len(plog) - 3] = LogSeen("socket", 1)
    /\ Completions = 1
    /\ pres.destroyed
    /\ proxySocket = "destroyed"

\* the first position of a call in a log, 0 if it was not made
CallAt(log, name) ==
    IF \E n \in 1..Len(log) : log[n] = LogCall(name)
    THEN CHOOSE n \in 1..Len(log) :
            /\ log[n] = LogCall(name)
            /\ \A k \in 1..(n - 1) : log[k] # LogCall(name)
    ELSE 0

\* both calls were made, the first ahead of the second
Ahead(first, second) ==
    /\ CallAt(plog, first) # 0
    /\ CallAt(plog, first) < CallAt(plog, second)

\* the calls that set up the two directions of the pipe
Pipes == {"pipeline(proxySocket, socket)", "pipeline(socket, proxySocket)"}

\* C37: for an upgrade request whose backend has upgraded, the socket
\* options were set on the client's socket, and the head that was left over
\* unshifted onto it, ahead of the request to the backend; the options were
\* set on the backend's socket, its head unshifted and the 101 response
\* written to the client's socket ahead of either pipe; a head that is not
\* empty is unshifted in each case.
C37_UpgradeOrder ==
    /\ [](preq.kind = "ws" /\ proxyReq = "upgraded" =>
             /\ Ahead("setupSocket(socket)", "request")
             /\ preq.head => Ahead("socket.unshift(head)", "request")
             /\ \A pipe \in Pipes :
                   /\ Ahead("setupSocket(proxySocket)", pipe)
                   /\ Ahead("socket.write(101)", pipe)
                   /\ CallAt(plog, "proxySocket.unshift(proxyHead)") # 0 =>
                         Ahead("proxySocket.unshift(proxyHead)", pipe))
    /\ [][\A notices \in BOOLEAN :
             WsUpgrade(TRUE, notices) =>
                 CallAt(plog', "proxySocket.unshift(proxyHead)") # 0]_vars

\* an upgrade with a head on either side
C37_Witness ==
    /\ preq.kind = "ws"
    /\ proxyReq = "upgraded"
    /\ preq.head
    /\ CallAt(plog, "socket.unshift(head)") = 6
    /\ CallAt(plog, "proxySocket.unshift(proxyHead)") = 10
    /\ CallAt(plog, "pipeline(proxySocket, socket)") = 12
    /\ pres.written = 1

\* ---- C34 ----
\* what one part of a key stands for
Piece(part, str) ==
    CASE part.t = "text" -> str = part.s
      [] part.t = "digits" -> str # "" /\ \A k \in 1..Len(str) : IsDigit(SubSeq(str, k, k))
      [] part.t = "any" -> TRUE

\* the ways str falls into one piece for each part of a key
RECURSIVE Splits(_, _)
Splits(parts, str) ==
    IF parts = <<>> THEN (IF str = "" THEN {<<>>} ELSE {})
    ELSE UNION {{<<Take(str, k)>> \o rest : rest \in Splits(Tail(parts), Drop(str, k))}
                : k \in {k \in 0..Len(str) : Piece(Head(parts), Take(str, k))}}

\* the prefixes of path a key matches; followed says what must come behind
\* a key that does not end with "/"
MatchedPrefixes(parts, path, followed) ==
    {e \in 0..Len(path) :
        /\ Splits(parts, Take(path, e)) # {}
        /\ followed /\ ~pathEndSlash(parts)
           => e = Len(path) \/ ~IsWordChar(SubSeq(path, e + 1, e + 1))}

\* the captured groups of a split, in their order
RECURSIVE Captured(_, _)
Captured(parts, split) ==
    IF parts = <<>> THEN <<>>
    ELSE (IF Head(parts).t = "digits" THEN <<Head(split)>> ELSE <<>>)
         \o Captured(Tail(parts), Tail(split))

\* the template with $k replaced by the k-th group, from the k-th group on
RECURSIVE Filled(_, _, _)
Filled(template, groups, k) ==
    IF k > Len(groups) THEN template
    ELSE Filled(ReplaceFirst(template, "$" \o ToString(k), groups[k]), groups, k + 1)

\* the rules other than the default
Patterns(rules) == {n \in 1..Len(rules) : Written(rules[n].key) # "default"}

\* what the contract asks of a call of resolveProxy
Resolved(followed) ==
    LET rules   == resolved.rules
        path    == resolved.path
        fitting == {n \in Patterns(rules) : MatchedPrefixes(rules[n].key, path, followed) # {}}
    IN  IF fitting = {}
        THEN resolved.target = Default(rules) /\ resolved.url = path
        ELSE LET n == CHOOSE n \in fitting : \A k \in fitting : n <= k
             IN  \E e \in MatchedPrefixes(rules[n].key, path, followed) :
                    \E split \in Splits(rules[n].key, Take(path, e)) :
                       /\ resolved.url = Drop(path, e)
                       /\ resolved.target =
                             Filled(rules[n].target, Captured(rules[n].key, split), 1)

\* C34 as stated: resolveProxy uses the first rule, in declared order, whose
\* pattern matches at the start of req.url; it returns the rule's target
\* with $1, $2, ... replaced by the captured groups and removes the matched
\* prefix from req.url; when no rule matches it returns rules.default and
\* leaves req.url unchanged.
C34_Original == resolved.called => Resolved(FALSE)

\* C34: as above, where a pattern that does not end with "/" matches only
\* when a non-word character or the end of req.url follows it.
C34_ResolveProxy == resolved.called => Resolved(TRUE)

C34_Witness ==
    /\ resolved.called
    /\ resolved.path = "/testE/id/2/data/233"
    /\ resolved.target = "http://127.0.0.1:8080/a/2/b/233"
    /\ resolved.url = ""

\* ---- C35 ----
\* finalization of a request whose status is in the empty table
EmptyFinalize ==
    /\ Finalize
    /\ Responds(Here)
    /\ EmptyStatus(res.statusCode)

\* the body is cleared and the transport ended with no payload, whatever
\* the body and the method were
EndedCleared ==
    /\ EndedEmpty
    /\ resp'.body = NullBody
    /\ ~res'.piped

\* C35 as stated: with a status of the empty table finalization clears the
\* body and ends the transport with no payload and no Content-Type.
C35_Original ==
    [][EmptyFinalize => EndedCleared /\ "content-type" \notin DOMAIN res'.headers]_vars

\* C35: with a status of the empty table finalization clears the body and
\* ends the transport with no payload, whatever the body and the method; no
\* Content-Type and no Content-Length is left unless the headers had been
\* sent before, and then the headers stay as they were.  The HEAD rule and
\* the body rules are not applied.
C35_EmptyStatusFirst ==
    [][EmptyFinalize =>
          /\ EndedCleared
          /\ IF res.headersSent THEN res'.headers = res.headers
             ELSE /\ "content-type" \notin DOMAIN res'.headers
                  /\ "content-length" \notin DOMAIN res'.headers]_vars

C35_Witness ==
    /\ phase = "done"
    /\ req.method = "HEAD"
    /\ res.statusCode = 304
    /\ resp.explicitStatus /\ resp.explicitNullBody
    /\ res.endCalls = 1 /\ res.sent = ""
    /\ "x-foo" \in DOMAIN res.headers
    /\ "content-type" \notin DOMAIN res.headers

\* ---- C36 ----
\* the backend's response arrives
Arrives == \E proxyRes \in Backends : ProxyResponse(proxyRes)

\* an outgoing pass was called in this step
Transformed == \E n \in (Len(plog) + 1)..Len(plog') : plog'[n].kind = "out"

\* C36: when the backend's response arrives with selfHandleResponse set, no
\* outgoing pass is applied, nothing is written to the client response and
\* the backend body is not piped to it; without selfHandleResponse the passes
\* run exactly when the headers of the client response have not been sent,
\* and the body is piped exactly when the client response is not finished.
C36_SelfHandleResponse ==
    [][Arrives =>
          /\ Transformed <=> (~popts.selfHandleResponse /\ ~pres.headersSent)
          /\ ~Transformed => relay'.res = relay.res
          /\ pres'.piped <=> (~popts.selfHandleResponse /\ ~pres.finished)
          /\ popts.selfHandleResponse =>
                /\ pres'.headersSent = pres.headersSent
                /\ pres'.finished = pres.finished
                /\ pres'.written = pres.written]_vars

C36_Witness ==
    /\ proxyReq = "responding"
    /\ popts.selfHandleResponse
    /\ relay.backend # NoResponse
    /\ relay.res = NoRelay.res
    /\ ~pres.headersSent /\ ~pres.finished /\ ~pres.piped

\* ---- C38 ----
\* handleResponse or onerror calls end on the transport in this step
EndCalled == res'.endCalls # res.endCalls

\* C38: over every sequence of middleware operations, pipeline success or
\* failure, errors of the body stream and notifications of on-finished,
\* handleResponse and onerror together call end on the transport at most
\* once, and never on a transport that has been ended already.
C38_EndAtMostOnce ==
    /\ [](res.endCalls <= 1)
    /\ [][EndCalled => ~res.writableEnded /\ res'.endCalls = res.endCalls + 1]_vars

C38_Witness ==
    /\ phase = "closed"
    /\ resp.bodyErrored
    /\ res.piped
    /\ res.endCalls = 1
    /\ res.statusCode = 404
    /\ Len(emitted) = 1

\* ---- C39 ----
\* the list with the callback put in at the place of the named pass (0) or
\* behind it (1)
Placed(list, passName, callback, behind) ==
    LET i == PassIndex(list, passName) + behind
    IN  SubSeq(list, 1, i - 1) \o <<callback>> \o SubSeq(list, i, Len(list))

\* before() and after() throw for these arguments
Refused(type, passName) ==
    type \notin {"web", "ws"} \/ passName \notin Range(passes[type])

\* what a call of before() or after() is to do
PlacedAs(op, type, passName, callback) ==
    IF Refused(type, passName) THEN passes' = passes /\ thrown' # "none"
    ELSE /\ thrown' = "none"
         /\ passes' = [passes EXCEPT
                          ![type] = Placed(@, passName, callback,
                                           IF op = "after" THEN 1 ELSE 0)]

\* C39: after(type, passName, callback) puts the callback into the pass list
\* of that type immediately after the pass named passName, before() puts it
\* immediately before that pass; both throw and leave the lists as they are
\* when the type is neither "web" nor "ws" or no pass has that name.
C39_Original ==
    [][\A op \in {"before", "after"}, type \in PassTypes, passName \in PassNames,
          callback \in Callbacks :
            AddPass(op, type, passName, callback)
               => PlacedAs(op, type, passName, callback)]_vars

\* ---- C40 ----
\* dispatch left the request to the next middleware because the router's
\* host option does not match the request's host
HostSkipped == ~MatchHost(ropts.host, target.host)

\* C40: allowedMethods() placed after routes() completes without raising an
\* error for every request, also for one the router skipped because its host
\* option did not match and for one whose path no layer matched; in these
\* cases the status stays 404 unless the method is outside the method table.
C40_Original ==
    [][(Downstream /\ ropts.mode = "set") =>
          /\ err'.nul /\ phase' # "failed"
          /\ ((HostSkipped \/ PathLayers = {}) /\ res.statusCode = 404
                 /\ Includes(Implemented, req.method))
                => res'.statusCode = 404]_vars

====
